---- MODULE Spec2Model ----
(***************************************************************************)
(* Streaming tool-calling agent engine of mahindrabot's llm_service:      *)
(*   utils.py  parse_partial_json, _get_ai_message_from_oai_response,     *)
(*             OAIStreamMessageBuilder                                     *)
(*   core.py   get_llm_stream_response                                     *)
(*   agent.py  ai_message_to_agent_response,                               *)
(*             update_agent_response_with_ai_message, _execute_tool,       *)
(*             execute_tool_calls, StreamingChatWithTools.ask              *)
(*                                                                         *)
(* Conventions.  Text is a sequence of one-character (or longer) strings,  *)
(* concatenated with \o.  An optional value (Python None or a value) is a  *)
(* sequence of length 0 or 1.  A dict is a set of <<key, value>> pairs.    *)
(* Python indexes are 0-based; the tree's sequences are 1-based, so an     *)
(* index i of an event addresses element i+1.                              *)
(***************************************************************************)
EXTENDS Integers, Sequences, FiniteSets, TLC

VARIABLES
    raw_messages,     \* StreamingChatWithTools.raw_messages (the history)
    agent_messages,   \* StreamingChatWithTools.agent_messages
    agent_response,   \* ask's local agent_response (the turn)
    ai_message,       \* ask's loop variable ai_message (optional)
    builder,          \* get_llm_stream_response's local OAIStreamMessageBuilder
    pc,               \* position of the ask generator
    suspended,        \* TRUE when the ask generator is parked at a yield
    nrounds,          \* number of backend calls made by this ask
    nevents,          \* number of stream events this ask has received
    cursor,           \* execute_tool_calls: step index, result index, user_messages
    outs,             \* outputs the running _execute_tool generator has still to yield
    round_history,    \* the history as it was when the current round began
    attempts,         \* log of the _execute_tool runs started so far, in order
    error,            \* the exception raised inside ask, if any (optional)
    calls_seen,       \* TRUE once a snapshot of this ask carried tool-call requests
    argument,         \* the argument of a function studied on its own (optional)
    result            \* the value it returned or the fact that it raised (optional)

vars == <<raw_messages, agent_messages, agent_response, ai_message, builder, pc,
          suspended, nrounds, nevents, cursor, outs, round_history,
          attempts, error, calls_seen, argument, result>>

(***************************************************************************)
(* Bounds.                                                                 *)
(***************************************************************************)
MaxEvents == 4      \* stream events received by one ask, all rounds together
MaxRounds == 2      \* backend calls of one ask
MaxYields == 1      \* values a generator tool yields before it ends or raises

None == <<>>
Some(x) == <<x>>

Min(S) == CHOOSE x \in S : \A y \in S : x <= y

(***************************************************************************)
(* Messages (messages.py is not part of the sources at hand; the shapes    *)
(* follow the constructor calls in agent.py and utils.py).                 *)
(***************************************************************************)
ToolCallRequest(id, name, raw_input, input) ==
    [id |-> id, name |-> name, raw_input |-> raw_input, input |-> input]

ToolResult(id, name, raw_input, input) ==
    [id |-> id, name |-> name, raw_input |-> raw_input, input |-> input,
     output |-> None, status |-> "pending", metadata |-> "None"]

ToolOutput(text, status, metadata) ==
    [text |-> text, status |-> status, metadata |-> metadata]

Reasoning(id, summaries, contents) ==
    [id |-> id, summaries |-> summaries, contents |-> contents]

AIMessage(id, content, reqs) ==
    [role |-> "assistant", id |-> id, content |-> content,
     tool_call_requests |-> reqs, tool_results |-> <<>>, reasoning |-> None]

UserMessage(content, tool_results) ==
    [role |-> "user", id |-> 0, content |-> content,
     tool_call_requests |-> <<>>, tool_results |-> tool_results, reasoning |-> None]

SystemMessage(content) ==
    [role |-> "system", id |-> 0, content |-> content,
     tool_call_requests |-> <<>>, tool_results |-> <<>>, reasoning |-> None]

AgentRequest(user_input) == [type |-> "agent_request", user_input |-> user_input]

AgentStep(msg, tool_results) ==
    [ai_message |-> msg, tool_results |-> tool_results, status |-> "pending"]

AgentResponse == [steps |-> <<>>, final_message |-> None]

(***************************************************************************)
(* parse_partial_json (utils.py 33-64).  A JSON text is a sequence of      *)
(* characters.  jiter.from_json is a library call; FromJson gives its      *)
(* result in partial_mode="trailing-strings" on texts over JsonAlphabet:   *)
(* strings and objects, where a text cut inside a string or an object      *)
(* gives what was read so far and anything else ill-formed raises.         *)
(***************************************************************************)
QUOTE == "\""
BSLASH == "\\"
JsonAlphabet == {"{", "}", QUOTE, ":", ",", BSLASH, "m", "X"}
NEWLINE == "\n"
Whitespace == {" ", NEWLINE}
HexDigits == {"0", "1", "2", "3", "4", "5", "6", "7", "8", "9",
              "a", "b", "c", "d", "e", "f", "A", "B", "C", "D", "E", "F"}

JStr(chars) == [t |-> "str", s |-> chars, o |-> {}]
JObj(pairs) == [t |-> "obj", s |-> <<>>, o |-> pairs]
PResult(st, v, i) == [st |-> st, v |-> v, i |-> i]

EndsWith(s, suffix) ==
    /\ Len(s) >= Len(suffix)
    /\ SubSeq(s, Len(s) - Len(suffix) + 1, Len(s)) = suffix

DropLast(s, n) == SubSeq(s, 1, Len(s) - n)

\* the first position from i on that holds no whitespace
RECURSIVE SkipWs(_, _)
SkipWs(s, i) ==
    IF i <= Len(s) /\ s[i] \in Whitespace THEN SkipWs(s, i + 1) ELSE i

\* the string body after an opening quote, read from position i: an escaped
\* quote or backslash gives that character, a complete \uXXXX escape gives its
\* code point, a raw line break or any other escape is an error
RECURSIVE ParseString(_, _, _)
ParseString(s, i, acc) ==
    IF i > Len(s) THEN PResult("eof", acc, i)
    ELSE IF s[i] = QUOTE THEN PResult("ok", acc, i + 1)
    ELSE IF s[i] = NEWLINE THEN PResult("err", acc, i)
    ELSE IF s[i] = BSLASH
         THEN IF i + 1 > Len(s) THEN PResult("eof", acc, i + 1)
              ELSE IF s[i + 1] \in {QUOTE, BSLASH}
                   THEN ParseString(s, i + 2, Append(acc, s[i + 1]))
              ELSE IF /\ s[i + 1] = "u"
                      /\ i + 5 <= Len(s)
                      /\ \A j \in (i + 2)..(i + 5) : s[j] \in HexDigits
                   THEN ParseString(s, i + 6,
                                    Append(acc, <<"U+">> \o SubSeq(s, i + 2, i + 5)))
                   ELSE PResult("err", acc, i)
    ELSE ParseString(s, i + 1, Append(acc, s[i]))

DictPut(d, k, v) == {p \in d : p[1] # k} \cup {<<k, v>>}

RECURSIVE ParseValue(_, _)
RECURSIVE ParseMembers(_, _, _, _)
\* the members of an object after its opening brace (or after a comma)
ParseMembers(s, at, acc, first) ==
    LET i == SkipWs(s, at) IN
    IF i > Len(s) THEN PResult("ok", JObj(acc), Len(s) + 1)
    ELSE IF first /\ s[i] = "}" THEN PResult("ok", JObj(acc), i + 1)
    ELSE IF s[i] # QUOTE THEN PResult("err", JObj(acc), i)
    ELSE LET k == ParseString(s, i + 1, <<>>)
             colon == SkipWs(s, k.i) IN
         IF k.st = "eof" THEN PResult("ok", JObj(acc), Len(s) + 1)
         ELSE IF k.st = "err" THEN PResult("err", JObj(acc), i)
         ELSE IF colon > Len(s) THEN PResult("ok", JObj(acc), Len(s) + 1)
         ELSE IF s[colon] # ":" THEN PResult("err", JObj(acc), colon)
         ELSE LET v == ParseValue(s, colon + 1)
                  next == SkipWs(s, v.i) IN
              IF v.st = "eof" THEN PResult("ok", JObj(acc), Len(s) + 1)
              ELSE IF v.st = "err" THEN PResult("err", JObj(acc), v.i)
              ELSE LET acc2 == DictPut(acc, k.v, v.v) IN
                   IF next > Len(s) THEN PResult("ok", JObj(acc2), Len(s) + 1)
                   ELSE IF s[next] = "," THEN ParseMembers(s, next + 1, acc2, FALSE)
                   ELSE IF s[next] = "}" THEN PResult("ok", JObj(acc2), next + 1)
                   ELSE PResult("err", JObj(acc2), next)

ParseValue(s, at) ==
    LET i == SkipWs(s, at) IN
    IF i > Len(s) THEN PResult("eof", JStr(<<>>), i)
    ELSE IF s[i] = QUOTE
         THEN LET r == ParseString(s, i + 1, <<>>) IN
              IF r.st = "err" THEN PResult("err", JStr(r.v), r.i)
              ELSE PResult("ok", JStr(r.v), IF r.st = "eof" THEN Len(s) + 1 ELSE r.i)
    ELSE IF s[i] = "{" THEN ParseMembers(s, i + 1, {}, TRUE)
    ELSE PResult("err", JStr(<<>>), i)

\* jiter.from_json(..., partial_mode="trailing-strings"): raised is TRUE when it raises
FromJson(s) ==
    LET r == ParseValue(s, 1)
    IN IF r.st = "ok" /\ SkipWs(s, r.i) > Len(s)
       THEN [raised |-> FALSE, value |-> r.v]
       ELSE [raised |-> TRUE, value |-> JStr(<<>>)]

\* the tail PARTIAL_UNICODE_PATTERN matches: backslash, u, 0 to 3 hex digits, end
\* ($ is also satisfied just before a line break that ends the text); the set
\* of the lengths of the matched text
PartialUnicodeTail(s) ==
    LET end == IF s # <<>> /\ s[Len(s)] = NEWLINE THEN Len(s) - 1 ELSE Len(s)
    IN {n \in 2..5 : /\ n <= end
                     /\ s[end - n + 1] = BSLASH
                     /\ s[end - n + 2] = "u"
                     /\ \A j \in (end - n + 3)..end : s[j] \in HexDigits}

TailRepair(json_str) ==
    IF \/ /\ EndsWith(json_str, <<QUOTE>>)
          /\ ~EndsWith(json_str, <<BSLASH, QUOTE>>)
          /\ ~EndsWith(json_str, <<":", QUOTE>>)
       \/ /\ EndsWith(json_str, <<BSLASH>>)
          /\ ~EndsWith(json_str, <<BSLASH, BSLASH>>)
    THEN DropLast(json_str, 1)
    ELSE IF PartialUnicodeTail(json_str) # {}
         THEN DropLast(json_str, Min(PartialUnicodeTail(json_str)))
         ELSE json_str

parse_partial_json(json_str) ==
    IF \A i \in 1..Len(json_str) : json_str[i] \in Whitespace
    THEN [raised |-> FALSE, value |-> JStr(<<>>)]
    ELSE FromJson(TailRepair(json_str))


(***************************************************************************)
(* The response tree of the provider and its stream events.  An item is a  *)
(* message (content parts), a function call (call_id, name, arguments) or  *)
(* a reasoning block (summary parts); one record shape serves the three,   *)
(* and ItemAttrs says which attributes an item of each type has.           *)
(***************************************************************************)
Part(type, text) == [type |-> type, text |-> text]

Item(type, id, call_id, name, arguments, content, summary) ==
    [type |-> type, id |-> id, call_id |-> call_id, name |-> name,
     arguments |-> arguments, content |-> content, summary |-> summary]

MessageItem(content) == Item("message", "msg", "", "", <<>>, content, <<>>)
FunctionCallItem(call_id, name, arguments) ==
    Item("function_call", "fc", call_id, name, arguments, <<>>, <<>>)
ReasoningItem(summary) == Item("reasoning", "rs", "", "", <<>>, <<>>, summary)

ItemAttrs(type) ==
    CASE type = "message" -> {"content"}
      [] type = "function_call" -> {"arguments"}
      [] type = "reasoning" -> {"summary"}
      [] OTHER -> {}

OAIResponse(id, output) == [id |-> id, output |-> output]

Event(type, response, item, part, output_index, part_index, text) ==
    [type |-> type, response |-> response, item |-> item, part |-> part,
     output_index |-> output_index, part_index |-> part_index, text |-> text]

ResponseEvent(type, response) == Event(type, Some(response), None, None, 0, 0, <<>>)
ItemEvent(type, output_index, item) == Event(type, None, Some(item), None, output_index, 0, <<>>)
PartEvent(type, output_index, part_index, part) ==
    Event(type, None, None, Some(part), output_index, part_index, <<>>)
\* delta and done events: text is event.delta, event.text or event.arguments
TextEvent(type, output_index, part_index, text) ==
    Event(type, None, None, None, output_index, part_index, text)

(***************************************************************************)
(* _get_ai_message_from_oai_response (utils.py 159-238), the branch for a  *)
(* tree with an output sequence.  raised is TRUE when it raises.           *)
(***************************************************************************)
RECURSIVE ContentOfParts(_, _)
\* utils.py 207-213: the text of the parts from position i on, None on an unknown part
ContentOfParts(parts, i) ==
    IF i > Len(parts) THEN Some(<<>>)
    ELSE IF parts[i].type # "output_text" THEN None
    ELSE LET rest == ContentOfParts(parts, i + 1)
         IN IF rest = None THEN None ELSE Some(parts[i].text \o rest[1])

RECURSIVE TranslateOutput(_, _, _)
TranslateOutput(output, i, msg) ==
    IF i > Len(output) THEN [raised |-> FALSE, message |-> msg]
    ELSE LET o == output[i] IN
         IF o.type = "message"
         THEN LET c == ContentOfParts(o.content, 1)
              IN IF c = None THEN [raised |-> TRUE, message |-> msg]
                 ELSE TranslateOutput(output, i + 1,
                                      [msg EXCEPT !.content = @ \o c[1]])
         ELSE IF o.type = "function_call"
         THEN LET parsed == parse_partial_json(o.arguments)
                  parsed_input == IF parsed.value.t = "obj" THEN parsed.value.o ELSE {}
              IN IF parsed.raised THEN [raised |-> TRUE, message |-> msg]
                 ELSE TranslateOutput(output, i + 1,
                          [msg EXCEPT !.tool_call_requests =
                               Append(@, ToolCallRequest(o.call_id, o.name,
                                                         o.arguments, parsed_input))])
         ELSE IF o.type = "reasoning"
         THEN TranslateOutput(output, i + 1,
                  [msg EXCEPT !.reasoning =
                       Some(Reasoning(o.id,
                                      [j \in 1..Len(o.summary) |-> o.summary[j].text],
                                      [j \in 1..Len(o.content) |-> o.content[j].text]))])
         ELSE [raised |-> TRUE, message |-> msg]

\* a non-streaming full response: choices[0].message has content (or None) and tool_calls
ChatCompletion(id, content, tool_calls) ==
    [id |-> id, choices |-> <<[message |-> [content |-> content, tool_calls |-> tool_calls]]>>]
ToolCall(id, name, arguments) == [id |-> id, function |-> [name |-> name, arguments |-> arguments]]

RECURSIVE TranslateToolCalls_by_name(_, _, _)
RECURSIVE TranslateToolCalls(_, _, _)
TranslateToolCalls_by_name(tool_calls, i, msg) ==
    IF i > Len(tool_calls) THEN [raised |-> FALSE, message |-> msg]
    ELSE LET tool_call == tool_calls[i]
             parsed == parse_partial_json(tool_call.function.arguments)
             parsed_input == IF parsed.value.t = "obj" THEN parsed.value.o ELSE {}
         IN IF parsed.raised THEN [raised |-> TRUE, message |-> msg]
            ELSE TranslateToolCalls_by_name(tool_calls, i + 1,
                     [msg EXCEPT !.tool_call_requests =
                          Append(@, ToolCallRequest(tool_call.function.name,
                                                    tool_call.function.name,
                                                    tool_call.function.arguments,
                                                    parsed_input))])
\* utils.py 186-197: one request per entry of message.tool_calls
TranslateToolCalls(tool_calls, i, msg) ==
    IF i > Len(tool_calls) THEN [raised |-> FALSE, message |-> msg]
    ELSE LET tool_call == tool_calls[i]
             parsed == parse_partial_json(tool_call.function.arguments)
             parsed_input == IF parsed.value.t = "obj" THEN parsed.value.o ELSE {}
         IN IF parsed.raised THEN [raised |-> TRUE, message |-> msg]
            ELSE TranslateToolCalls(tool_calls, i + 1,
                     [msg EXCEPT !.tool_call_requests =
                          Append(@, ToolCallRequest(tool_call.id,
                                                    tool_call.function.name,
                                                    tool_call.function.arguments,
                                                    parsed_input))])

\* utils.py 178-199: the branch for a response with a non-empty choices sequence
TranslateChoice(response) ==
    LET message == response.choices[1].message
        content == IF message.content # None /\ message.content[1] # <<>>
                   THEN message.content[1] ELSE <<>>
    IN TranslateToolCalls(message.tool_calls, 1, AIMessage(response.id, content, <<>>))

_get_ai_message_from_oai_response(response) ==
    IF "choices" \in DOMAIN response /\ Len(response.choices) > 0
    THEN TranslateChoice(response)
    ELSE IF "output" \in DOMAIN response
         THEN TranslateOutput(response.output, 1, AIMessage(response.id, <<>>, <<>>))
         ELSE [raised |-> FALSE, message |-> AIMessage(response.id, <<>>, <<>>)]

(***************************************************************************)
(* OAIStreamMessageBuilder (utils.py 241-348).                             *)
(***************************************************************************)
OAIStreamMessageBuilder == [_response |-> None, events |-> <<>>]

\* does the tree have an item at the event's output_index with attribute attr,
\* and (for an addressed part) a part at the event's part index
HasItem(r, event, attr) ==
    /\ r # None
    /\ event.output_index + 1 \in 1..Len(r[1].output)
    /\ attr \in ItemAttrs(r[1].output[event.output_index + 1].type)

HasPart(r, event, attr) ==
    /\ HasItem(r, event, attr)
    /\ event.part_index + 1 \in
          1..Len(r[1].output[event.output_index + 1][attr])

\* variant: an event of an unhandled kind is logged and otherwise ignored
add_event_skips_unknown(b, event) ==
    LET log == Append(Append(b.events, event), event)
        r == b._response
        oi == event.output_index + 1
        pi == event.part_index + 1
        Raise == [raised |-> TRUE, builder |-> [b EXCEPT !.events = log]]
        Ok(tree) == [raised |-> FALSE,
                     builder |-> [_response |-> Some(tree), events |-> log]]
        t == event.type
    IN  IF t \in {"response.created", "response.in_progress"}
        THEN Ok(event.response[1])
        ELSE IF t = "response.output_item.added"
        THEN IF r = None THEN Raise
             ELSE Ok([r[1] EXCEPT !.output = Append(@, event.item[1])])
        ELSE IF t = "response.content_part.added"
        THEN IF ~HasItem(r, event, "content") THEN Raise
             ELSE Ok([r[1] EXCEPT !.output[oi].content = Append(@, event.part[1])])
        ELSE IF t = "response.reasoning_summary_part.added"
        THEN IF ~HasItem(r, event, "summary") THEN Raise
             ELSE Ok([r[1] EXCEPT !.output[oi].summary = Append(@, event.part[1])])
        ELSE IF t = "response.reasoning_summary_text.delta"
        THEN IF ~HasPart(r, event, "summary") THEN Raise
             ELSE Ok([r[1] EXCEPT !.output[oi].summary[pi].text = @ \o event.text])
        ELSE IF t = "response.reasoning_summary_text.done"
        THEN IF ~HasPart(r, event, "summary") THEN Raise
             ELSE Ok([r[1] EXCEPT !.output[oi].summary[pi].text = event.text])
        ELSE IF t = "response.reasoning_summary_part.done"
        THEN IF ~HasPart(r, event, "summary") THEN Raise
             ELSE Ok([r[1] EXCEPT !.output[oi].summary[pi] = event.part[1]])
        ELSE IF t = "response.output_text.delta"
        THEN IF ~HasPart(r, event, "content") THEN Raise
             ELSE Ok([r[1] EXCEPT !.output[oi].content[pi].text = @ \o event.text])
        ELSE IF t = "response.output_text.done"
        THEN IF ~HasPart(r, event, "content") THEN Raise
             ELSE Ok([r[1] EXCEPT !.output[oi].content[pi].text = event.text])
        ELSE IF t = "response.content_part.done"
        THEN IF ~HasPart(r, event, "content") THEN Raise
             ELSE Ok([r[1] EXCEPT !.output[oi].content[pi] = event.part[1]])
        ELSE IF t = "response.output_item.done"
        THEN IF r = None \/ oi \notin 1..Len(r[1].output) THEN Raise
             ELSE Ok([r[1] EXCEPT !.output[oi] = event.item[1]])
        ELSE IF t = "response.function_call_arguments.delta"
        THEN IF ~HasItem(r, event, "arguments") THEN Raise
             ELSE Ok([r[1] EXCEPT !.output[oi].arguments = @ \o event.text])
        ELSE IF t = "response.function_call_arguments.done"
        THEN IF r = None \/ oi \notin 1..Len(r[1].output) THEN Raise
             ELSE Ok([r[1] EXCEPT !.output[oi].arguments = event.text])
        ELSE IF t = "response.completed"
        THEN Ok(event.response[1])
        ELSE IF r = None THEN Raise
        ELSE Ok(r[1])

\* variant: a text done event appends its text as a delta does
add_event_done_appends(b, event) ==
    LET log == Append(Append(b.events, event), event)
        r == b._response
        oi == event.output_index + 1
        pi == event.part_index + 1
        Raise == [raised |-> TRUE, builder |-> [b EXCEPT !.events = log]]
        Ok(tree) == [raised |-> FALSE,
                     builder |-> [_response |-> Some(tree), events |-> log]]
        t == event.type
    IN  IF t \in {"response.created", "response.in_progress"}
        THEN Ok(event.response[1])
        ELSE IF t = "response.output_item.added"
        THEN IF r = None THEN Raise
             ELSE Ok([r[1] EXCEPT !.output = Append(@, event.item[1])])
        ELSE IF t = "response.content_part.added"
        THEN IF ~HasItem(r, event, "content") THEN Raise
             ELSE Ok([r[1] EXCEPT !.output[oi].content = Append(@, event.part[1])])
        ELSE IF t = "response.reasoning_summary_part.added"
        THEN IF ~HasItem(r, event, "summary") THEN Raise
             ELSE Ok([r[1] EXCEPT !.output[oi].summary = Append(@, event.part[1])])
        ELSE IF t = "response.reasoning_summary_text.delta"
        THEN IF ~HasPart(r, event, "summary") THEN Raise
             ELSE Ok([r[1] EXCEPT !.output[oi].summary[pi].text = @ \o event.text])
        ELSE IF t = "response.reasoning_summary_text.done"
        THEN IF ~HasPart(r, event, "summary") THEN Raise
             ELSE Ok([r[1] EXCEPT !.output[oi].summary[pi].text = event.text])
        ELSE IF t = "response.reasoning_summary_part.done"
        THEN IF ~HasPart(r, event, "summary") THEN Raise
             ELSE Ok([r[1] EXCEPT !.output[oi].summary[pi] = event.part[1]])
        ELSE IF t = "response.output_text.delta"
        THEN IF ~HasPart(r, event, "content") THEN Raise
             ELSE Ok([r[1] EXCEPT !.output[oi].content[pi].text = @ \o event.text])
        ELSE IF t = "response.output_text.done"
        THEN IF ~HasPart(r, event, "content") THEN Raise
             ELSE Ok([r[1] EXCEPT !.output[oi].content[pi].text = @ \o event.text])
        ELSE IF t = "response.content_part.done"
        THEN IF ~HasPart(r, event, "content") THEN Raise
             ELSE Ok([r[1] EXCEPT !.output[oi].content[pi] = event.part[1]])
        ELSE IF t = "response.output_item.done"
        THEN IF r = None \/ oi \notin 1..Len(r[1].output) THEN Raise
             ELSE Ok([r[1] EXCEPT !.output[oi] = event.item[1]])
        ELSE IF t = "response.function_call_arguments.delta"
        THEN IF ~HasItem(r, event, "arguments") THEN Raise
             ELSE Ok([r[1] EXCEPT !.output[oi].arguments = @ \o event.text])
        ELSE IF t = "response.function_call_arguments.done"
        THEN IF r = None \/ oi \notin 1..Len(r[1].output) THEN Raise
             ELSE Ok([r[1] EXCEPT !.output[oi].arguments = event.text])
        ELSE IF t = "response.completed"
        THEN Ok(event.response[1])
        ELSE Raise

\* variant: a created or in-progress event is ignored once there is a tree
add_event_keeps_tree(b, event) ==
    LET log == Append(Append(b.events, event), event)
        r == b._response
        oi == event.output_index + 1
        pi == event.part_index + 1
        Raise == [raised |-> TRUE, builder |-> [b EXCEPT !.events = log]]
        Ok(tree) == [raised |-> FALSE,
                     builder |-> [_response |-> Some(tree), events |-> log]]
        t == event.type
    IN  IF t \in {"response.created", "response.in_progress"}
        THEN IF r = None THEN Ok(event.response[1]) ELSE Ok(r[1])
        ELSE IF t = "response.output_item.added"
        THEN IF r = None THEN Raise
             ELSE Ok([r[1] EXCEPT !.output = Append(@, event.item[1])])
        ELSE IF t = "response.content_part.added"
        THEN IF ~HasItem(r, event, "content") THEN Raise
             ELSE Ok([r[1] EXCEPT !.output[oi].content = Append(@, event.part[1])])
        ELSE IF t = "response.reasoning_summary_part.added"
        THEN IF ~HasItem(r, event, "summary") THEN Raise
             ELSE Ok([r[1] EXCEPT !.output[oi].summary = Append(@, event.part[1])])
        ELSE IF t = "response.reasoning_summary_text.delta"
        THEN IF ~HasPart(r, event, "summary") THEN Raise
             ELSE Ok([r[1] EXCEPT !.output[oi].summary[pi].text = @ \o event.text])
        ELSE IF t = "response.reasoning_summary_text.done"
        THEN IF ~HasPart(r, event, "summary") THEN Raise
             ELSE Ok([r[1] EXCEPT !.output[oi].summary[pi].text = event.text])
        ELSE IF t = "response.reasoning_summary_part.done"
        THEN IF ~HasPart(r, event, "summary") THEN Raise
             ELSE Ok([r[1] EXCEPT !.output[oi].summary[pi] = event.part[1]])
        ELSE IF t = "response.output_text.delta"
        THEN IF ~HasPart(r, event, "content") THEN Raise
             ELSE Ok([r[1] EXCEPT !.output[oi].content[pi].text = @ \o event.text])
        ELSE IF t = "response.output_text.done"
        THEN IF ~HasPart(r, event, "content") THEN Raise
             ELSE Ok([r[1] EXCEPT !.output[oi].content[pi].text = event.text])
        ELSE IF t = "response.content_part.done"
        THEN IF ~HasPart(r, event, "content") THEN Raise
             ELSE Ok([r[1] EXCEPT !.output[oi].content[pi] = event.part[1]])
        ELSE IF t = "response.output_item.done"
        THEN IF r = None \/ oi \notin 1..Len(r[1].output) THEN Raise
             ELSE Ok([r[1] EXCEPT !.output[oi] = event.item[1]])
        ELSE IF t = "response.function_call_arguments.delta"
        THEN IF ~HasItem(r, event, "arguments") THEN Raise
             ELSE Ok([r[1] EXCEPT !.output[oi].arguments = @ \o event.text])
        ELSE IF t = "response.function_call_arguments.done"
        THEN IF r = None \/ oi \notin 1..Len(r[1].output) THEN Raise
             ELSE Ok([r[1] EXCEPT !.output[oi].arguments = event.text])
        ELSE IF t = "response.completed"
        THEN Ok(event.response[1])
        ELSE Raise

\* variant: a call that raises drops the tree
add_event_raise_drops_tree(b, event) ==
    LET log == Append(Append(b.events, event), event)
        r == b._response
        oi == event.output_index + 1
        pi == event.part_index + 1
        Raise == [raised |-> TRUE, builder |-> [_response |-> None, events |-> log]]
        Ok(tree) == [raised |-> FALSE,
                     builder |-> [_response |-> Some(tree), events |-> log]]
        t == event.type
    IN  IF t \in {"response.created", "response.in_progress"}
        THEN Ok(event.response[1])
        ELSE IF t = "response.output_item.added"
        THEN IF r = None THEN Raise
             ELSE Ok([r[1] EXCEPT !.output = Append(@, event.item[1])])
        ELSE IF t = "response.content_part.added"
        THEN IF ~HasItem(r, event, "content") THEN Raise
             ELSE Ok([r[1] EXCEPT !.output[oi].content = Append(@, event.part[1])])
        ELSE IF t = "response.reasoning_summary_part.added"
        THEN IF ~HasItem(r, event, "summary") THEN Raise
             ELSE Ok([r[1] EXCEPT !.output[oi].summary = Append(@, event.part[1])])
        ELSE IF t = "response.reasoning_summary_text.delta"
        THEN IF ~HasPart(r, event, "summary") THEN Raise
             ELSE Ok([r[1] EXCEPT !.output[oi].summary[pi].text = @ \o event.text])
        ELSE IF t = "response.reasoning_summary_text.done"
        THEN IF ~HasPart(r, event, "summary") THEN Raise
             ELSE Ok([r[1] EXCEPT !.output[oi].summary[pi].text = event.text])
        ELSE IF t = "response.reasoning_summary_part.done"
        THEN IF ~HasPart(r, event, "summary") THEN Raise
             ELSE Ok([r[1] EXCEPT !.output[oi].summary[pi] = event.part[1]])
        ELSE IF t = "response.output_text.delta"
        THEN IF ~HasPart(r, event, "content") THEN Raise
             ELSE Ok([r[1] EXCEPT !.output[oi].content[pi].text = @ \o event.text])
        ELSE IF t = "response.output_text.done"
        THEN IF ~HasPart(r, event, "content") THEN Raise
             ELSE Ok([r[1] EXCEPT !.output[oi].content[pi].text = event.text])
        ELSE IF t = "response.content_part.done"
        THEN IF ~HasPart(r, event, "content") THEN Raise
             ELSE Ok([r[1] EXCEPT !.output[oi].content[pi] = event.part[1]])
        ELSE IF t = "response.output_item.done"
        THEN IF r = None \/ oi \notin 1..Len(r[1].output) THEN Raise
             ELSE Ok([r[1] EXCEPT !.output[oi] = event.item[1]])
        ELSE IF t = "response.function_call_arguments.delta"
        THEN IF ~HasItem(r, event, "arguments") THEN Raise
             ELSE Ok([r[1] EXCEPT !.output[oi].arguments = @ \o event.text])
        ELSE IF t = "response.function_call_arguments.done"
        THEN IF r = None \/ oi \notin 1..Len(r[1].output) THEN Raise
             ELSE Ok([r[1] EXCEPT !.output[oi].arguments = event.text])
        ELSE IF t = "response.completed"
        THEN Ok(event.response[1])
        ELSE Raise

\* utils.py 279-348
add_event(b, event) ==
    LET log == Append(Append(b.events, event), event)
        r == b._response
        oi == event.output_index + 1
        pi == event.part_index + 1
        Raise == [raised |-> TRUE, builder |-> [b EXCEPT !.events = log]]
        Ok(tree) == [raised |-> FALSE,
                     builder |-> [_response |-> Some(tree), events |-> log]]
        t == event.type
    IN  IF t \in {"response.created", "response.in_progress"}
        THEN Ok(event.response[1])
        ELSE IF t = "response.output_item.added"
        THEN IF r = None THEN Raise
             ELSE Ok([r[1] EXCEPT !.output = Append(@, event.item[1])])
        ELSE IF t = "response.content_part.added"
        THEN IF ~HasItem(r, event, "content") THEN Raise
             ELSE Ok([r[1] EXCEPT !.output[oi].content = Append(@, event.part[1])])
        ELSE IF t = "response.reasoning_summary_part.added"
        THEN IF ~HasItem(r, event, "summary") THEN Raise
             ELSE Ok([r[1] EXCEPT !.output[oi].summary = Append(@, event.part[1])])
        ELSE IF t = "response.reasoning_summary_text.delta"
        THEN IF ~HasPart(r, event, "summary") THEN Raise
             ELSE Ok([r[1] EXCEPT !.output[oi].summary[pi].text = @ \o event.text])
        ELSE IF t = "response.reasoning_summary_text.done"
        THEN IF ~HasPart(r, event, "summary") THEN Raise
             ELSE Ok([r[1] EXCEPT !.output[oi].summary[pi].text = event.text])
        ELSE IF t = "response.reasoning_summary_part.done"
        THEN IF ~HasPart(r, event, "summary") THEN Raise
             ELSE Ok([r[1] EXCEPT !.output[oi].summary[pi] = event.part[1]])
        ELSE IF t = "response.output_text.delta"
        THEN IF ~HasPart(r, event, "content") THEN Raise
             ELSE Ok([r[1] EXCEPT !.output[oi].content[pi].text = @ \o event.text])
        ELSE IF t = "response.output_text.done"
        THEN IF ~HasPart(r, event, "content") THEN Raise
             ELSE Ok([r[1] EXCEPT !.output[oi].content[pi].text = event.text])
        ELSE IF t = "response.content_part.done"
        THEN IF ~HasPart(r, event, "content") THEN Raise
             ELSE Ok([r[1] EXCEPT !.output[oi].content[pi] = event.part[1]])
        ELSE IF t = "response.output_item.done"
        THEN IF r = None \/ oi \notin 1..Len(r[1].output) THEN Raise
             ELSE Ok([r[1] EXCEPT !.output[oi] = event.item[1]])
        ELSE IF t = "response.function_call_arguments.delta"
        THEN IF ~HasItem(r, event, "arguments") THEN Raise
             ELSE Ok([r[1] EXCEPT !.output[oi].arguments = @ \o event.text])
        ELSE IF t = "response.function_call_arguments.done"
        THEN IF r = None \/ oi \notin 1..Len(r[1].output) THEN Raise
             ELSE Ok([r[1] EXCEPT !.output[oi].arguments = event.text])
        ELSE IF t = "response.completed"
        THEN Ok(event.response[1])
        ELSE Raise


(***************************************************************************)
(* Agent Response Aggregator (agent.py 88-158).                            *)
(***************************************************************************)
\* agent.py 138-146 (and 104-112): one pending ToolResult per request, in order
ToolResultsOf(msg) ==
    [i \in 1..Len(msg.tool_call_requests) |->
        ToolResult(msg.tool_call_requests[i].id, msg.tool_call_requests[i].name,
                   msg.tool_call_requests[i].raw_input, msg.tool_call_requests[i].input)]

\* variant: the final message is kept next to the step
ai_message_to_agent_response_keeps_final(msg) ==
    [steps |-> IF msg.tool_call_requests = <<>> THEN <<>>
               ELSE <<AgentStep(msg, ToolResultsOf(msg))>>,
     final_message |-> Some(msg)]
ai_message_to_agent_response(msg) ==
    IF msg.tool_call_requests = <<>>
    THEN [steps |-> <<>>, final_message |-> Some(msg)]
    ELSE [steps |-> <<AgentStep(msg, ToolResultsOf(msg))>>, final_message |-> None]

\* variant: the lookup of an existing step (agent.py 148-153) is left out
update_always_appends(resp, msg) ==
    IF msg.tool_call_requests = <<>>
    THEN [resp EXCEPT !.final_message = Some(msg)]
    ELSE [resp EXCEPT !.final_message = None,
                      !.steps = Append(@, AgentStep(msg, ToolResultsOf(msg)))]

\* variant: a step found by its identifier is reopened
update_reopens_step(resp, msg) ==
    IF msg.tool_call_requests = <<>>
    THEN [resp EXCEPT !.final_message = Some(msg)]
    ELSE LET found == {i \in 1..Len(resp.steps) : resp.steps[i].ai_message.id = msg.id}
         IN IF found # {}
            THEN [resp EXCEPT !.final_message = None,
                              !.steps[Min(found)] = AgentStep(msg, ToolResultsOf(msg))]
            ELSE [resp EXCEPT !.final_message = None,
                              !.steps = Append(@, AgentStep(msg, ToolResultsOf(msg)))]

\* variant: the assignment of agent.py 136 is left out
update_keeps_final(resp, msg) ==
    IF msg.tool_call_requests = <<>>
    THEN [resp EXCEPT !.final_message = Some(msg)]
    ELSE LET found == {i \in 1..Len(resp.steps) : resp.steps[i].ai_message.id = msg.id}
         IN IF found # {}
            THEN [resp EXCEPT !.steps[Min(found)].ai_message = msg,
                              !.steps[Min(found)].tool_results = ToolResultsOf(msg)]
            ELSE [resp EXCEPT !.steps = Append(@, AgentStep(msg, ToolResultsOf(msg)))]

update_agent_response_with_ai_message(resp, msg) ==
    IF msg.tool_call_requests = <<>>
    THEN [resp EXCEPT !.final_message = Some(msg)]
    ELSE LET found == {i \in 1..Len(resp.steps) : resp.steps[i].ai_message.id = msg.id}
         IN IF found # {}
            THEN [resp EXCEPT !.final_message = None,
                              !.steps[Min(found)].ai_message = msg,
                              !.steps[Min(found)].tool_results = ToolResultsOf(msg)]
            ELSE [resp EXCEPT !.final_message = None,
                              !.steps = Append(@, AgentStep(msg, ToolResultsOf(msg)))]

(***************************************************************************)
(* Tool Execution Subsystem (agent.py 161-236).  A tool callable is known  *)
(* by its kind; what it does when invoked is a behaviour: the values it    *)
(* returns or yields, and the exception it then raises, if any.            *)
(***************************************************************************)
\* StreamingChatWithTools.tools as name -> callable; "ghost" is not registered
Registry == [search_car |-> "function", compare |-> "generator"]

\* name_to_tool.get(name), agent.py 228
NameToTool(name) == IF name \in DOMAIN Registry THEN Some(Registry[name]) ELSE None

Value(kind, text, status, metadata, n) ==
    [kind |-> kind, text |-> text, status |-> status, metadata |-> metadata, n |-> n]
OutputValue(text, status, metadata) == Value("ToolOutput", text, status, metadata, 0)
StrValue(text) == Value("str", text, "", "None", 0)
IntValue(n) == Value("int", <<>>, "", "None", n)

Digit(d) == CASE d = 0 -> "0" [] d = 1 -> "1" [] d = 2 -> "2" [] d = 3 -> "3"
              [] d = 4 -> "4" [] d = 5 -> "5" [] d = 6 -> "6" [] d = 7 -> "7"
              [] d = 8 -> "8" [] d = 9 -> "9"
RECURSIVE Digits(_)
Digits(n) == IF n < 10 THEN <<Digit(n)>> ELSE Append(Digits(n \div 10), Digit(n % 10))

\* Python's str(value)
Str(v) == IF v.kind = "int" THEN Digits(v.n) ELSE v.text

\* variant: every value, a ToolOutput included, is wrapped as a success
CoerceOutput_always_success(v) == ToolOutput(Str(v), "success", "None")

\* variant: a forwarded ToolOutput loses its metadata
CoerceOutput_drops_metadata(v) ==
    IF v.kind = "ToolOutput" THEN ToolOutput(v.text, v.status, "None")
    ELSE ToolOutput(Str(v), "success", "None")

\* agent.py 187-192 and 195-198
CoerceOutput(v) ==
    IF v.kind = "ToolOutput" THEN ToolOutput(v.text, v.status, v.metadata)
    ELSE ToolOutput(Str(v), "success", "None")

ExceptionOutput(e) == ToolOutput(<<"Error: ">> \o e, "failure", "None")

Behaviour(yields, raises) == [yields |-> yields, raises |-> raises]

\* a run of the generator _execute_tool: the outputs it yields, in order, and
\* the exception that then leaves it uncaught, if any
Execution(outputs, propagates) == [outputs |-> outputs, propagates |-> propagates]

\* variant: a missing tool is passed over without an output
_execute_tool_missing_silent(tool_func, tool_name, behaviour) ==
    IF tool_func = None THEN Execution(<<>>, None)
    ELSE IF behaviour.raises = None
    THEN Execution([i \in 1..Len(behaviour.yields) |-> CoerceOutput(behaviour.yields[i])],
                   None)
    ELSE Execution([i \in 1..Len(behaviour.yields) |-> CoerceOutput(behaviour.yields[i])]
                   \o <<ExceptionOutput(behaviour.raises[1])>>, None)

\* variant: the try block covers the plain call only, not a generator's iteration
_execute_tool_iteration_unguarded(tool_func, tool_name, behaviour) ==
    IF tool_func = None
    THEN Execution(<<ToolOutput(<<"Error: Tool '", tool_name, "' not found.">>,
                                "failure", "None")>>, None)
    ELSE IF tool_func[1] = "generator"
    THEN Execution([i \in 1..Len(behaviour.yields) |-> CoerceOutput(behaviour.yields[i])],
                   behaviour.raises)
    ELSE IF behaviour.raises = None
         THEN Execution(<<CoerceOutput(behaviour.yields[1])>>, None)
         ELSE Execution(<<ExceptionOutput(behaviour.raises[1])>>, None)

_execute_tool(tool_func, tool_name, behaviour) ==
    IF tool_func = None
    THEN Execution(<<ToolOutput(<<"Error: Tool '", tool_name, "' not found.">>,
                                "failure", "None")>>, None)
    ELSE IF tool_func[1] = "generator"
    THEN Execution([i \in 1..Len(behaviour.yields) |-> CoerceOutput(behaviour.yields[i])]
                   \o (IF behaviour.raises = None THEN <<>>
                       ELSE <<ExceptionOutput(behaviour.raises[1])>>), None)
    ELSE IF behaviour.raises = None
         THEN Execution(<<CoerceOutput(behaviour.yields[1])>>, None)
         ELSE Execution(<<ExceptionOutput(behaviour.raises[1])>>, None)

Exceptions == {<<"boom">>}
ReturnValues == {OutputValue(<<"not found">>, "failure", "None"), IntValue(42)}
YieldValues == {OutputValue(<<"working">>, "success", "progress")}

SeqsUpTo(S, n) == UNION {[1..k -> S] : k \in 0..n}

\* what a callable of the given kind may do when it is invoked
Behaviours(tool_func) ==
    IF tool_func = None THEN {Behaviour(<<>>, None)}
    ELSE IF tool_func[1] = "generator"
    THEN {Behaviour(ys, r) : ys \in SeqsUpTo(YieldValues, MaxYields),
                             r \in {None} \cup {Some(e) : e \in Exceptions}}
    ELSE {Behaviour(<<v>>, None) : v \in ReturnValues}
         \cup {Behaviour(<<>>, Some(e)) : e \in Exceptions}


(***************************************************************************)
(* The environment of one ask call: the events a round's stream may        *)
(* deliver, the histories an instance may be constructed with, the input.  *)
(***************************************************************************)
RespIds == {1, 2}
ArgsText == <<"{", QUOTE, "m", QUOTE, ":", QUOTE, "X", QUOTE, "}">>
ArgsChunk == SubSeq(ArgsText, 1, 7)
HiText == <<"H", "i">>

TextOutput == <<MessageItem(<<Part("output_text", HiText)>>)>>
OneCallOutput == <<FunctionCallItem("c1", "search_car", ArgsText)>>
TwoCallsOutput == <<FunctionCallItem("c2", "ghost", ArgsText),
                    FunctionCallItem("c3", "compare", <<>>)>>

FinalResponses ==
    {OAIResponse(i, TextOutput) : i \in RespIds}
    \cup {OAIResponse(1, OneCallOutput), OAIResponse(2, TwoCallsOutput)}

StreamEvents ==
    {ResponseEvent("response.created", OAIResponse(i, <<>>)) : i \in RespIds}
    \cup {ResponseEvent("response.completed", r) : r \in FinalResponses}
    \cup {ItemEvent("response.output_item.added", 0, FunctionCallItem("c1", "search_car", <<>>)),
          ItemEvent("response.output_item.added", 0, MessageItem(<<>>)),
          PartEvent("response.content_part.added", 0, 0, Part("output_text", <<>>)),
          TextEvent("response.output_text.delta", 0, 0, HiText),
          TextEvent("response.function_call_arguments.delta", 0, 0, ArgsChunk),
          TextEvent("response.failed", 0, 0, <<>>)}

InitialHistories == {<<SystemMessage(<<"sys">>)>>}
UserInputs == {<<"hello">>}

NoCursor == [s |-> 0, r |-> 0, running |-> FALSE, user_messages |-> <<>>,
             propagates |-> None]

Init ==
    /\ raw_messages \in InitialHistories
    /\ agent_messages = <<>>
    /\ agent_response = AgentResponse
    /\ ai_message = None
    /\ builder = OAIStreamMessageBuilder
    /\ pc = "idle"
    /\ suspended = FALSE
    /\ nrounds = 0
    /\ nevents = 0
    /\ cursor = NoCursor
    /\ outs = <<>>
    /\ round_history = raw_messages
    /\ attempts = <<>>
    /\ error = None
    /\ calls_seen = FALSE
    /\ argument = None
    /\ result = None

(***************************************************************************)
(* StreamingChatWithTools.ask (agent.py 299-346), one action per stretch   *)
(* of the generator between two points where control can change hands.     *)
(***************************************************************************)
\* agent.py 328-330
ask(user_input) ==
    /\ pc = "idle"
    /\ agent_messages' = Append(agent_messages, AgentRequest(user_input))
    /\ raw_messages' = Append(raw_messages, UserMessage(user_input, <<>>))
    /\ agent_response' = AgentResponse
    /\ pc' = "call"
    /\ UNCHANGED <<ai_message, builder, suspended, nrounds, nevents, cursor, outs,
                   round_history, attempts, error, calls_seen, argument, result>>

\* agent.py 331-334 and core.py 155-164: a round starts, the stream is opened
CallBackend ==
    /\ pc = "call"
    /\ nrounds < MaxRounds
    /\ nrounds' = nrounds + 1
    /\ builder' = OAIStreamMessageBuilder
    /\ round_history' = raw_messages
    /\ pc' = "streaming"
    /\ suspended' = FALSE
    /\ UNCHANGED <<raw_messages, agent_messages, agent_response, ai_message, nevents,
                   cursor, outs, attempts, error, calls_seen, argument, result>>

\* variant: the exception is caught and the round is tried again
Propagate_swallowed ==
    /\ pc' = "call"
    /\ suspended' = FALSE

\* ask has no handler (agent.py 331-346): an exception raised inside it ends
\* the generator and reaches the caller
Propagate ==
    /\ pc' = "raised"
    /\ suspended' = FALSE

\* variant: every snapshot is appended to the history as it arrives
StreamEvent_commits_snapshot(event) ==
    /\ pc = "streaming"
    /\ nevents < MaxEvents
    /\ nevents' = nevents + 1
    /\ LET added == add_event(builder, event) IN
       /\ builder' = added.builder
       /\ IF added.raised
          THEN /\ error' = Some("add_event")
               /\ Propagate
               /\ UNCHANGED <<ai_message, agent_response, calls_seen, raw_messages>>
          ELSE LET translated ==
                      _get_ai_message_from_oai_response(added.builder._response[1])
               IN IF translated.raised
                  THEN /\ error' = Some("translate")
                       /\ Propagate
                       /\ UNCHANGED <<ai_message, agent_response, calls_seen, raw_messages>>
                  ELSE /\ ai_message' = Some(translated.message)
                       /\ agent_response' = update_agent_response_with_ai_message(
                                                agent_response, translated.message)
                       /\ raw_messages' = Append(raw_messages, translated.message)
                       /\ suspended' = TRUE
                       /\ calls_seen' = (calls_seen
                              \/ translated.message.tool_call_requests # <<>>)
                       /\ UNCHANGED <<pc, error>>
    /\ UNCHANGED <<agent_messages, nrounds, cursor, outs, round_history, attempts,
                   argument, result>>

\* core.py 165-166 and agent.py 335: the stream delivers one event
StreamEvent(event) ==
    /\ pc = "streaming"
    /\ nevents < MaxEvents
    /\ nevents' = nevents + 1
    /\ LET added == add_event(builder, event) IN
       /\ builder' = added.builder
       /\ IF added.raised
          THEN /\ error' = Some("add_event")
               /\ Propagate
               /\ UNCHANGED <<ai_message, agent_response, calls_seen>>
          ELSE LET translated ==
                      _get_ai_message_from_oai_response(added.builder._response[1])
               IN IF translated.raised
                  THEN /\ error' = Some("translate")
                       /\ Propagate
                       /\ UNCHANGED <<ai_message, agent_response, calls_seen>>
                  ELSE /\ ai_message' = Some(translated.message)
                       /\ agent_response' = update_agent_response_with_ai_message(
                                                agent_response, translated.message)
                       /\ suspended' = TRUE
                       /\ calls_seen' = (calls_seen
                              \/ translated.message.tool_call_requests # <<>>)
                       /\ UNCHANGED <<pc, error>>
    /\ UNCHANGED <<raw_messages, agent_messages, nrounds, cursor, outs, round_history,
                   attempts, argument, result>>

\* the backend raises while the stream is opened or read (core.py 158-165)
StreamRaises ==
    /\ pc = "streaming"
    /\ error' = Some("backend")
    /\ Propagate
    /\ UNCHANGED <<raw_messages, agent_messages, agent_response, ai_message, builder,
                   nrounds, nevents, cursor, outs, round_history, attempts, calls_seen,
                   argument, result>>

\* variant: the test of agent.py 338 is left out and every round runs the tools
StreamEnd_always_runs_tools ==
    /\ pc = "streaming"
    /\ IF builder._response = None
       THEN /\ error' = Some("no_response")
            /\ Propagate
            /\ UNCHANGED <<raw_messages, cursor, builder>>
       ELSE /\ raw_messages' = Append(raw_messages, ai_message[1])
            /\ builder' = OAIStreamMessageBuilder
            /\ IF FALSE
               THEN /\ pc' = "final_yield"
                    /\ suspended' = TRUE
                    /\ UNCHANGED cursor
               ELSE /\ pc' = "tools"
                    /\ suspended' = FALSE
                    /\ cursor' = [NoCursor EXCEPT !.s = 1, !.r = 1]
            /\ UNCHANGED error
    /\ UNCHANGED <<agent_messages, agent_response, ai_message, nrounds,
                   nevents, outs, round_history, attempts, calls_seen,
                   argument, result>>

\* core.py 167-169 and agent.py 336-343: the stream is exhausted; when
\* get_llm_stream_response returns, its builder is gone
StreamEnd ==
    /\ pc = "streaming"
    /\ IF builder._response = None
       THEN /\ error' = Some("no_response")
            /\ Propagate
            /\ UNCHANGED <<raw_messages, cursor, builder>>
       ELSE /\ raw_messages' = Append(raw_messages, ai_message[1])
            /\ builder' = OAIStreamMessageBuilder
            /\ IF agent_response.final_message # None
               THEN /\ pc' = "final_yield"
                    /\ suspended' = TRUE
                    /\ UNCHANGED cursor
               ELSE /\ pc' = "tools"
                    /\ suspended' = FALSE
                    /\ cursor' = [NoCursor EXCEPT !.s = 1, !.r = 1]
            /\ UNCHANGED error
    /\ UNCHANGED <<agent_messages, agent_response, ai_message, nrounds,
                   nevents, outs, round_history, attempts, calls_seen,
                   argument, result>>

\* variant: after the final yield the loop goes on instead of returning
FinalResume_keeps_looping ==
    /\ pc = "final_yield"
    /\ pc' = "call"
    /\ suspended' = FALSE
    /\ UNCHANGED <<raw_messages, agent_messages, agent_response, ai_message, builder,
                   nrounds, nevents, cursor, outs, round_history, attempts, error,
                   calls_seen, argument, result>>

\* agent.py 340-341
FinalResume ==
    /\ pc = "final_yield"
    /\ agent_messages' = Append(agent_messages, agent_response)
    /\ pc' = "returned"
    /\ suspended' = FALSE
    /\ UNCHANGED <<raw_messages, agent_response, ai_message, builder, nrounds, nevents,
                   cursor, outs, round_history, attempts, error, calls_seen,
                   argument, result>>

(***************************************************************************)
(* execute_tool_calls (agent.py 204-236) as driven by ask's yield from.    *)
(***************************************************************************)
InTools == pc = "tools" /\ cursor.s \in 1..Len(agent_response.steps)
CurStep == agent_response.steps[cursor.s]

\* agent.py 225-226
ExecSkipDone ==
    /\ InTools
    /\ CurStep.status = "done"
    /\ cursor' = [cursor EXCEPT !.s = @ + 1, !.r = 1]
    /\ suspended' = FALSE
    /\ UNCHANGED <<raw_messages, agent_messages, agent_response, ai_message, builder, pc,
                   nrounds, nevents, outs, round_history, attempts, error, calls_seen,
                   argument, result>>

\* variant: execute_tool_calls without the test of agent.py 225-226
ExecInvoke_ignores_done(behaviour) ==
    /\ InTools
    /\ ~cursor.running
    /\ cursor.r \in 1..Len(CurStep.tool_results)
    /\ LET name == CurStep.tool_results[cursor.r].name
           tool_func == NameToTool(name)
           run == _execute_tool(tool_func, name, behaviour)
       IN /\ behaviour \in Behaviours(tool_func)
          /\ outs' = run.outputs
          /\ cursor' = [cursor EXCEPT !.running = TRUE, !.propagates = run.propagates]
          /\ attempts' = Append(attempts,
                 [round |-> nrounds, s |-> cursor.s, r |-> cursor.r,
                  id |-> CurStep.tool_results[cursor.r].id, name |-> name,
                  invoked |-> tool_func # None, behaviour |-> behaviour,
                  outputs |-> run.outputs, propagates |-> run.propagates])
    /\ suspended' = FALSE
    /\ UNCHANGED <<raw_messages, agent_messages, agent_response, ai_message, builder, pc,
                   nrounds, nevents, round_history, error, calls_seen,
                   argument, result>>

\* agent.py 228-229: the callable is looked up and _execute_tool is started
ExecInvoke(behaviour) ==
    /\ InTools
    /\ CurStep.status # "done"
    /\ ~cursor.running
    /\ cursor.r \in 1..Len(CurStep.tool_results)
    /\ LET name == CurStep.tool_results[cursor.r].name
           tool_func == NameToTool(name)
           run == _execute_tool(tool_func, name, behaviour)
       IN /\ behaviour \in Behaviours(tool_func)
          /\ outs' = run.outputs
          /\ cursor' = [cursor EXCEPT !.running = TRUE, !.propagates = run.propagates]
          /\ attempts' = Append(attempts,
                 [round |-> nrounds, s |-> cursor.s, r |-> cursor.r,
                  id |-> CurStep.tool_results[cursor.r].id, name |-> name,
                  invoked |-> tool_func # None, behaviour |-> behaviour,
                  outputs |-> run.outputs, propagates |-> run.propagates])
    /\ suspended' = FALSE
    /\ UNCHANGED <<raw_messages, agent_messages, agent_response, ai_message, builder, pc,
                   nrounds, nevents, round_history, error, calls_seen,
                   argument, result>>

\* variant: the outputs are stored but the turn is not yielded in between
ExecOutput_without_yield ==
    /\ InTools
    /\ cursor.running
    /\ outs # <<>>
    /\ agent_response' =
          [agent_response EXCEPT !.steps[cursor.s].tool_results[cursor.r] =
              [@ EXCEPT !.output = Some(Head(outs).text),
                        !.status = Head(outs).status,
                        !.metadata = Head(outs).metadata]]
    /\ outs' = Tail(outs)
    /\ suspended' = FALSE
    /\ UNCHANGED <<raw_messages, agent_messages, ai_message, builder, pc, nrounds,
                   nevents, cursor, round_history, attempts, error, calls_seen,
                   argument, result>>

\* variant: only the first output of an execution is stored
ExecOutput_keeps_first ==
    /\ InTools
    /\ cursor.running
    /\ outs # <<>>
    /\ agent_response' =
          IF CurStep.tool_results[cursor.r].output # None THEN agent_response
          ELSE [agent_response EXCEPT !.steps[cursor.s].tool_results[cursor.r] =
                   [@ EXCEPT !.output = Some(Head(outs).text),
                             !.status = Head(outs).status,
                             !.metadata = Head(outs).metadata]]
    /\ outs' = Tail(outs)
    /\ suspended' = TRUE
    /\ UNCHANGED <<raw_messages, agent_messages, ai_message, builder, pc, nrounds,
                   nevents, cursor, round_history, attempts, error, calls_seen,
                   argument, result>>

\* agent.py 229-233: the next output is stored and the turn is yielded
ExecOutput ==
    /\ InTools
    /\ cursor.running
    /\ outs # <<>>
    /\ agent_response' =
          [agent_response EXCEPT !.steps[cursor.s].tool_results[cursor.r] =
              [@ EXCEPT !.output = Some(Head(outs).text),
                        !.status = Head(outs).status,
                        !.metadata = Head(outs).metadata]]
    /\ outs' = Tail(outs)
    /\ suspended' = TRUE
    /\ UNCHANGED <<raw_messages, agent_messages, ai_message, builder, pc, nrounds,
                   nevents, cursor, round_history, attempts, error, calls_seen,
                   argument, result>>

\* agent.py 227, 229: _execute_tool is exhausted, on to the next tool result;
\* an exception leaving _execute_tool has no handler here either
ExecNext ==
    /\ InTools
    /\ cursor.running
    /\ outs = <<>>
    /\ IF cursor.propagates # None
       THEN /\ error' = Some("tool")
            /\ Propagate
            /\ UNCHANGED cursor
       ELSE /\ cursor' = [cursor EXCEPT !.running = FALSE, !.r = @ + 1]
            /\ suspended' = FALSE
            /\ UNCHANGED <<pc, error>>
    /\ UNCHANGED <<raw_messages, agent_messages, agent_response, ai_message, builder,
                   nrounds, nevents, outs, round_history, attempts, calls_seen,
                   argument, result>>

\* variant: the step is marked DONE but no message is made for its results
ExecStepDone_without_message ==
    /\ InTools
    /\ CurStep.status # "done"
    /\ ~cursor.running
    /\ cursor.r > Len(CurStep.tool_results)
    /\ cursor' = [cursor EXCEPT !.s = @ + 1, !.r = 1]
    /\ agent_response' = [agent_response EXCEPT !.steps[cursor.s].status = "done"]
    /\ suspended' = FALSE
    /\ UNCHANGED <<raw_messages, agent_messages, ai_message, builder, pc, nrounds,
                   nevents, outs, round_history, attempts, error, calls_seen,
                   argument, result>>

\* agent.py 234-235
ExecStepDone ==
    /\ InTools
    /\ CurStep.status # "done"
    /\ ~cursor.running
    /\ cursor.r > Len(CurStep.tool_results)
    /\ cursor' = [cursor EXCEPT !.s = @ + 1, !.r = 1,
                                !.user_messages =
                                    Append(@, UserMessage(<<>>, CurStep.tool_results))]
    /\ agent_response' = [agent_response EXCEPT !.steps[cursor.s].status = "done"]
    /\ suspended' = FALSE
    /\ UNCHANGED <<raw_messages, agent_messages, ai_message, builder, pc, nrounds,
                   nevents, outs, round_history, attempts, error, calls_seen,
                   argument, result>>

\* variant: the messages execute_tool_calls returns are not added to the history
ExecReturn_drops_results ==
    /\ pc = "tools"
    /\ cursor.s > Len(agent_response.steps)
    /\ cursor' = NoCursor
    /\ pc' = "call"
    /\ suspended' = FALSE
    /\ UNCHANGED <<raw_messages, agent_messages, agent_response, ai_message, builder,
                   nrounds, nevents, outs, round_history, attempts, error, calls_seen,
                   argument, result>>

\* agent.py 236 and 343-346
ExecReturn ==
    /\ pc = "tools"
    /\ cursor.s > Len(agent_response.steps)
    /\ raw_messages' = raw_messages \o cursor.user_messages
    /\ cursor' = NoCursor
    /\ pc' = "call"
    /\ suspended' = FALSE
    /\ UNCHANGED <<agent_messages, agent_response, ai_message, builder, nrounds, nevents,
                   outs, round_history, attempts, error, calls_seen, argument, result>>

\* the consumer closes the generator while it is parked at a yield
\* (agent.py 335, 339 or, through yield from, 233)
Close ==
    /\ suspended
    /\ pc' = "closed"
    /\ suspended' = FALSE
    /\ UNCHANGED <<raw_messages, agent_messages, agent_response, ai_message, builder,
                   nrounds, nevents, cursor, outs, round_history, attempts, error,
                   calls_seen, argument, result>>

AllBehaviours == UNION {Behaviours(f) : f \in {None, Some("function"), Some("generator")}}

Next ==
    \/ \E u \in UserInputs : ask(u)
    \/ CallBackend
    \/ \E e \in StreamEvents : StreamEvent(e)
    \/ StreamRaises
    \/ StreamEnd
    \/ FinalResume
    \/ ExecSkipDone
    \/ \E b \in AllBehaviours : ExecInvoke(b)
    \/ ExecOutput
    \/ ExecNext
    \/ ExecStepDone
    \/ ExecReturn
    \/ Close

Spec == Init /\ [][Next]_vars

(***************************************************************************)
(* The same ask call with a backend that keeps one message identifier      *)
(* throughout a round and a new one for each round, as the Responses API   *)
(* does: every event of one stream carries the response of that call.      *)
(***************************************************************************)
RoundEvents(k) == {e \in StreamEvents : e.response = None \/ e.response[1].id = k}

StableNext ==
    \/ \E u \in UserInputs : ask(u)
    \/ CallBackend
    \/ \E e \in RoundEvents(nrounds) : StreamEvent(e)
    \/ StreamRaises
    \/ StreamEnd
    \/ FinalResume
    \/ ExecSkipDone
    \/ \E b \in AllBehaviours : ExecInvoke(b)
    \/ ExecOutput
    \/ ExecNext
    \/ ExecStepDone
    \/ ExecReturn
    \/ Close

StableSpec == Init /\ [][StableNext]_vars

(***************************************************************************)
(* The ask call driven to its end: the consumer takes every turn and never *)
(* closes the generator (the for loop of core/agent.py 260-262), so each   *)
(* step of the generator that can be taken is taken.                       *)
(***************************************************************************)
RunNext ==
    \/ \E u \in UserInputs : ask(u)
    \/ CallBackend
    \/ \E e \in RoundEvents(nrounds) : StreamEvent(e)
    \/ StreamRaises
    \/ StreamEnd
    \/ FinalResume
    \/ ExecSkipDone
    \/ \E b \in AllBehaviours : ExecInvoke(b)
    \/ ExecOutput
    \/ ExecNext
    \/ ExecStepDone
    \/ ExecReturn

RunSpec == Init /\ [][RunNext]_vars /\ WF_vars(RunNext)


(***************************************************************************)
(* Properties.                                                             *)
(***************************************************************************)
Last(seq) == seq[Len(seq)]

\* the ask generator is parked at the yield of agent.py 335: ai_message is the
\* message of the latest update_agent_response_with_ai_message call
AfterUpdate == pc = "streaming" /\ suspended

StepsFor(id) == {i \in 1..Len(agent_response.steps) :
                    agent_response.steps[i].ai_message.id = id}

HasPendingResult(step) ==
    \E j \in 1..Len(step.tool_results) : step.tool_results[j].status = "pending"

\* C1 as stated: after every update the turn has exactly one step for the
\* identifier of the message passed, holding that message and the tool results
\* derived from it.
C1_ExactlyOneStepAlways ==
    AfterUpdate =>
        /\ Cardinality(StepsFor(ai_message[1].id)) = 1
        /\ \A i \in StepsFor(ai_message[1].id) :
              /\ agent_response.steps[i].ai_message = ai_message[1]
              /\ agent_response.steps[i].tool_results = ToolResultsOf(ai_message[1])

\* C1 (amended): a turn never has two steps for one message identifier, and after
\* an update with a message that carries tool-call requests it has exactly one
\* step for that identifier, holding the message passed and the pending tool
\* results derived from it.
C1_IdentityStability ==
    /\ \A i, j \in 1..Len(agent_response.steps) :
          agent_response.steps[i].ai_message.id = agent_response.steps[j].ai_message.id
             => i = j
    /\ (AfterUpdate /\ ai_message[1].tool_call_requests # <<>>) =>
          /\ Cardinality(StepsFor(ai_message[1].id)) = 1
          /\ \A i \in StepsFor(ai_message[1].id) :
                /\ agent_response.steps[i].ai_message = ai_message[1]
                /\ agent_response.steps[i].tool_results = ToolResultsOf(ai_message[1])

\* the step of message 1 was created by output_item.added (empty arguments) and
\* updated in place by the arguments delta that followed
C1_Witness ==
    /\ AfterUpdate
    /\ Len(agent_response.steps) = 1
    /\ agent_response.steps[1].ai_message = ai_message[1]
    /\ agent_response.steps[1].tool_results[1].raw_input = ArgsChunk

\* C2: after an update with a message that carries no tool-call requests the
\* message is the final message and the turn holds no step for its identifier.
C2_NoCallsClearsStep ==
    (AfterUpdate /\ ai_message[1].tool_call_requests = <<>>) =>
        /\ agent_response.final_message = ai_message
        /\ StepsFor(ai_message[1].id) = {}

\* C3: when a round's stream is exhausted the turn does not have both a final
\* message and a step with pending results for the newest assistant message, and
\* when ask has returned the final message is set and no step is PENDING.
C3_FinalExcludesPending ==
    /\ pc \in {"final_yield", "tools", "returned"} =>
          ~ /\ agent_response.final_message # None
            /\ \E i \in StepsFor(ai_message[1].id) :
                  HasPendingResult(agent_response.steps[i])
    /\ pc = "returned" =>
          /\ agent_response.final_message # None
          /\ \A i \in 1..Len(agent_response.steps) :
                agent_response.steps[i].status # "pending"

LastIsCompleted ==
    /\ builder.events # <<>>
    /\ Last(builder.events).type = "response.completed"

\* C4: a round appends to the history only when its stream is exhausted, and what
\* it appends is the one message translated from the response-completed snapshot.
C4_CommitsCompletedMessage ==
    [][(pc = "streaming" /\ raw_messages' # raw_messages) =>
          /\ pc' # "streaming"
          /\ LastIsCompleted
          /\ raw_messages' =
                Append(raw_messages,
                       _get_ai_message_from_oai_response(
                           Last(builder.events).response[1]).message)]_vars

\* C5: a stream that ends without a response-completed event makes the round fail:
\* from a streaming state whose last event is not response.completed the round can
\* go on, be aborted or raise, and nothing is appended to the history.
C5_MissingTerminalRaises ==
    [][(pc = "streaming" /\ ~LastIsCompleted) =>
          /\ pc' \in {"streaming", "raised", "closed"}
          /\ raw_messages' = raw_messages]_vars

\* C6: when the consumer closes ask at a streaming yield, the history is the one
\* the round started with: nothing of the aborted round is in it.
C6_CancelKeepsHistory ==
    [][(pc = "streaming" /\ pc' = "closed") =>
          /\ raw_messages' = round_history
          /\ raw_messages' = raw_messages]_vars

\* ask was closed in its second round while a snapshot with tool calls was shown
C6_Witness ==
    /\ pc = "closed"
    /\ builder.events # <<>>
    /\ nrounds = 2
    /\ ai_message[1].tool_call_requests # <<>>
    /\ Len(raw_messages) > 2

BackendErrors == {"backend", "add_event", "translate", "no_response"}

\* C7: once the backend call of a round has raised, ask has ended with that
\* exception, the history is that of the round's start, and no backend call, tool
\* execution or history change follows.
C7_BackendErrorFatal ==
    /\ [](error # None =>
            /\ error[1] \in BackendErrors
            /\ pc = "raised"
            /\ raw_messages = round_history)
    /\ [][error # None =>
            /\ nrounds' = nrounds
            /\ attempts' = attempts
            /\ raw_messages' = raw_messages]_vars

\* the backend raised in the second round, after a round that executed a tool
C7_Witness ==
    /\ pc = "raised"
    /\ error = Some("backend")
    /\ nrounds = 2
    /\ attempts # <<>>
    /\ Len(raw_messages) = 4

\* the _execute_tool run of attempt k has yielded its last output
Finished(k) == k < Len(attempts) \/ ~cursor.running \/ outs = <<>>

NotFoundText(name) == <<"Error: Tool '", name, "' not found.">>

\* the tool is missing, raises, or its last value is a failure Output
FailingAttempt(a) ==
    \/ a.name \notin DOMAIN Registry
    \/ a.behaviour.raises # None
    \/ /\ a.behaviour.yields # <<>>
       /\ Last(a.behaviour.yields).kind = "ToolOutput"
       /\ Last(a.behaviour.yields).status = "failure"

FailureText(a) ==
    IF a.name \notin DOMAIN Registry THEN NotFoundText(a.name)
    ELSE IF a.behaviour.raises # None THEN <<"Error: ">> \o a.behaviour.raises[1]
    ELSE Last(a.behaviour.yields).text

RecordedFailure(a, tool_result) ==
    /\ tool_result.id = a.id
    /\ tool_result.name = a.name
    /\ tool_result.status = "failure"
    /\ tool_result.output = Some(FailureText(a))

\* C8: a failed tool execution does not end ask: while the round lasts ask is
\* executing tools or about to call the backend again (unless the consumer closed
\* it), the tool result holds status failure and the failure text, and once the
\* tools have run a User message of the history carries that result.
C8_ToolFailureNotFatal ==
    \A k \in 1..Len(attempts) :
        (FailingAttempt(attempts[k]) /\ Finished(k)) =>
            LET a == attempts[k] IN
            /\ error # Some("tool")
            /\ nrounds = a.round => pc \in {"tools", "call", "closed"}
            /\ (nrounds = a.round /\ pc \in {"tools", "closed"}) =>
                  RecordedFailure(a, agent_response.steps[a.s].tool_results[a.r])
            /\ (nrounds > a.round \/ pc = "call") =>
                  \E j \in 1..Len(raw_messages) :
                     /\ raw_messages[j].role = "user"
                     /\ a.r <= Len(raw_messages[j].tool_results)
                     /\ RecordedFailure(a, raw_messages[j].tool_results[a.r])
            /\ (pc = "call" /\ nrounds < MaxRounds) => ENABLED CallBackend

\* one round requested search_car, which returned the failure Output 'not found'
C8_Witness ==
    /\ pc = "call"
    /\ nrounds = 1
    /\ Len(attempts) = 1
    /\ attempts[1].name = "search_car"
    /\ Len(agent_response.steps) = 1
    /\ agent_response.steps[1].status = "done"
    /\ Last(raw_messages).role = "user"
    /\ Len(Last(raw_messages).tool_results) = 1
    /\ Last(raw_messages).tool_results[1].status = "failure"
    /\ Last(raw_messages).tool_results[1].output = Some(<<"not found">>)

\* C9: a tool name absent from the registry yields exactly one Output, a failure
\* whose text names the tool; no callable is invoked and nothing is raised.
C9_MissingToolOneFailure ==
    \A k \in 1..Len(attempts) :
        attempts[k].name \notin DOMAIN Registry =>
            /\ attempts[k].outputs =
                  <<ToolOutput(NotFoundText(attempts[k].name), "failure", "None")>>
            /\ ~attempts[k].invoked
            /\ attempts[k].propagates = None
            /\ error # Some("tool")

\* the unregistered tool ghost was requested and its result reached the history
C9_Witness ==
    /\ pc = "call"
    /\ \E k \in 1..Len(attempts) : attempts[k].name = "ghost"
    /\ \E j \in 1..Len(raw_messages) :
          /\ raw_messages[j].role = "user"
          /\ raw_messages[j].tool_results # <<>>
          /\ raw_messages[j].tool_results[1].name = "ghost"
          /\ raw_messages[j].tool_results[1].output = Some(NotFoundText("ghost"))

\* C10: when a tool callable raises, at the call or after any number of yielded
\* values, the execution yields exactly one Output more: a failure with the
\* exception's message, which is its last Output; the exception does not leave
\* _execute_tool.
C10_ToolExceptionCaught ==
    \A k \in 1..Len(attempts) :
        attempts[k].behaviour.raises # None =>
            LET a == attempts[k] IN
            /\ a.propagates = None
            /\ error # Some("tool")
            /\ Len(a.outputs) = Len(a.behaviour.yields) + 1
            /\ Last(a.outputs) =
                  ToolOutput(<<"Error: ">> \o a.behaviour.raises[1], "failure", "None")
            /\ \A i \in 1..Len(a.behaviour.yields) :
                  a.outputs[i].text = Str(a.behaviour.yields[i])

\* the generator tool compare yielded an interim output and then raised
C10_Witness ==
    /\ pc = "call"
    /\ \E k \in 1..Len(attempts) :
          /\ attempts[k].name = "compare"
          /\ attempts[k].behaviour.yields # <<>>
          /\ attempts[k].behaviour.raises # None
          /\ \E j \in 1..Len(raw_messages) :
                /\ raw_messages[j].role = "user"
                /\ Len(raw_messages[j].tool_results) >= attempts[k].r
                /\ raw_messages[j].tool_results[attempts[k].r].output =
                      Some(<<"Error: ", "boom">>)

(***************************************************************************)
(* Tool execution, steps and rounds (agent.py 204-236, 328-346).           *)
(***************************************************************************)
\* the step at index s was run by execute_tool_calls in the current round
ExecutedThisRound(s) ==
    \E k \in 1..Len(attempts) : attempts[k].round = nrounds /\ attempts[k].s = s

\* C11: once execute_tool_calls has gone through all the tool results of a
\* step, each of them has status success or failure and none is pending,
\* whatever the callable was: missing, plain function, raising function, or a
\* generator yielding any number of outputs, zero included.
C11_ToolCoverage ==
    \A s \in 1..Len(agent_response.steps) :
        (pc = "tools" /\ s < cursor.s /\ ExecutedThisRound(s))
        => \A r \in 1..Len(agent_response.steps[s].tool_results) :
               agent_response.steps[s].tool_results[r].status \in {"success", "failure"}

\* C12: over a whole ask call the callable bound to a tool result is invoked
\* at most once: _execute_tool is started only inside execute_tool_calls (never
\* while a round's stream is being consumed), only for a step that is not
\* DONE, only for a tool result it has not been started for before, and never
\* for a step that was executed in an earlier round.
C12_AtMostOnce ==
    [][attempts' # attempts =>
          /\ pc = "tools" /\ pc' = "tools"
          /\ builder = OAIStreamMessageBuilder
          /\ CurStep.status = "pending"
          /\ Len(attempts') = Len(attempts) + 1
          /\ \A k \in 1..Len(attempts) :
                /\ attempts'[k] = attempts[k]
                /\ ~(attempts[k].s = cursor.s /\ attempts[k].r = cursor.r)
                /\ attempts[k].s = cursor.s => attempts[k].round = nrounds]_vars

\* in the second round execute_tool_calls has passed over the step it executed
\* in the first round and is executing the tools of the second step
C12_Witness ==
    /\ nrounds = 2
    /\ pc = "tools"
    /\ cursor.s = 2
    /\ agent_response.steps[1].status = "done"
    /\ \E k \in 1..Len(attempts) : attempts[k].round = 1 /\ attempts[k].s = 1
    /\ \E k \in 1..Len(attempts) : attempts[k].round = 2 /\ attempts[k].s = 2

\* what agent.py 230-232 leaves in a tool result for the output o
Stores(tool_result, o) ==
    /\ tool_result.output = Some(o.text)
    /\ tool_result.status = o.status
    /\ tool_result.metadata = o.metadata

\* C13: when the execution of a tool result has ended, the output, status and
\* metadata it keeps are those of the last output the execution yielded, both
\* in the turn and in the tool-result message the history receives; an interim
\* output of a generator tool is not what remains.
C13_LastOutputPersists ==
    \A k \in 1..Len(attempts) :
        LET a == attempts[k] IN
        (Finished(k) /\ a.outputs # <<>>) =>
            /\ a.round = nrounds =>
                  Stores(agent_response.steps[a.s].tool_results[a.r], Last(a.outputs))
            /\ (a.round < nrounds \/ pc = "call") =>
                  \E j \in 1..Len(raw_messages) :
                      /\ raw_messages[j].role = "user"
                      /\ a.r \in 1..Len(raw_messages[j].tool_results)
                      /\ raw_messages[j].tool_results[a.r].id = a.id
                      /\ Stores(raw_messages[j].tool_results[a.r], Last(a.outputs))

\* a generator tool yielded a progress output and then raised: the failure
\* is what its tool result holds in the history
C13_Witness ==
    /\ pc = "call"
    /\ \E k \in 1..Len(attempts) :
          LET a == attempts[k] IN
          /\ a.round = nrounds
          /\ Len(a.outputs) = 2
          /\ a.outputs[1] # a.outputs[2]
          /\ Stores(agent_response.steps[a.s].tool_results[a.r], a.outputs[2])
          /\ Stores(Last(raw_messages).tool_results[a.r], a.outputs[2])

\* C14: within a step the tools run in request order and one at a time:
\* _execute_tool is started for the tool result at position i+1 only when the
\* execution for position i has handed over its last output, every output is
\* stored on its own, and ask yields the turn after each of them.
C14_SequentialInOrder ==
    [][/\ attempts' # attempts =>
             /\ outs = <<>> /\ ~cursor.running
             /\ LET a == Last(attempts') IN
                /\ a.s = cursor.s /\ a.r = cursor.r
                /\ \A i \in 1..(a.r - 1) :
                      \E k \in 1..Len(attempts) :
                          /\ attempts[k].round = a.round
                          /\ attempts[k].s = a.s /\ attempts[k].r = i
                          /\ \A j \in 1..Len(attempts) :
                                (attempts[j].s = a.s /\ attempts[j].r > i) => j > k
                /\ \A k \in 1..Len(attempts) :
                      attempts[k].s = a.s => attempts[k].r < a.r
       /\ (pc = "tools" /\ outs # <<>> /\ outs' # outs) =>
             /\ outs' = Tail(outs)
             /\ suspended'
             /\ Stores(agent_response'.steps[cursor.s].tool_results[cursor.r], Head(outs))
       /\ (pc = "tools" /\ agent_response'.steps # agent_response.steps
                        /\ outs' = outs) =>
             /\ ~cursor.running
             /\ agent_response' =
                   [agent_response EXCEPT !.steps[cursor.s].status = "done"]]_vars

\* the turn is yielded with the output of the second tool of a step, after
\* the first tool of that step has been executed
C14_Witness ==
    /\ pc = "tools"
    /\ suspended
    /\ cursor.r = 2
    /\ Len(attempts) >= 2
    /\ attempts[Len(attempts) - 1].s = cursor.s
    /\ attempts[Len(attempts) - 1].r = 1
    /\ Last(attempts).s = cursor.s
    /\ Last(attempts).r = 2
    /\ CurStep.tool_results[1].status # "pending"
    /\ CurStep.tool_results[2].status # "pending"

\* the indexes of the steps execute_tool_calls ran in the current round, in
\* the order of the steps list (agent.py 224)
ExecutedSteps ==
    LET S == {s \in 1..Len(agent_response.steps) : ExecutedThisRound(s)}
    IN CHOOSE f \in [1..Cardinality(S) -> S] :
           \A i, j \in 1..Cardinality(S) : i < j => f[i] < f[j]

\* C15: when the tool results of a pending step have been gone through, the
\* step is DONE and exactly one User message with empty text is made for it,
\* carrying the step's tool results in request order with the identifiers of
\* the originating tool-call requests; before the next backend call that
\* message is in the history, after the step's assistant message.
C15_ResultMessagePerStep ==
    (pc = "call" /\ nrounds >= 1) =>
        LET f == ExecutedSteps
            base == Len(round_history) + 1
        IN /\ Len(raw_messages) = base + Len(f)
           /\ \A k \in 1..Len(f) :
                 LET step == agent_response.steps[f[k]]
                     um == raw_messages[base + k]
                 IN /\ step.status = "done"
                    /\ um.role = "user"
                    /\ um.content = <<>>
                    /\ um.tool_results = step.tool_results
                    /\ Len(um.tool_results) = Len(step.ai_message.tool_call_requests)
                    /\ \A r \in 1..Len(um.tool_results) :
                          /\ um.tool_results[r].id = step.ai_message.tool_call_requests[r].id
                          /\ um.tool_results[r].name = step.ai_message.tool_call_requests[r].name
                    /\ \E i \in 1..(base + k - 1) :
                          /\ raw_messages[i].role = "assistant"
                          /\ raw_messages[i] = step.ai_message

\* the second round's step asked for two tools; both were executed and the
\* history ends with the one message that carries both results
C15_Witness ==
    /\ pc = "call"
    /\ nrounds = 2
    /\ Len(ExecutedSteps) = 1
    /\ Last(raw_messages).role = "user"
    /\ Len(Last(raw_messages).tool_results) = 2
    /\ \A r \in 1..2 : Last(raw_messages).tool_results[r].status # "pending"
    /\ raw_messages[Len(raw_messages) - 1] = agent_response.steps[ExecutedSteps[1]].ai_message

\* C16: with a backend whose first call delivers a final message and no
\* tool-call request in any snapshot, ask("hello") calls the backend once and
\* no tool: every turn it yields has no step and has the snapshot so far as
\* its final message, the last of them is the completed message, yielded once
\* more after the stream, and ask returns that turn; the history has grown by
\* the User message followed by the assistant message.
C16_FinalOnFirstCall ==
    (pc # "idle" /\ ~calls_seen) =>
        /\ nrounds <= 1
        /\ attempts = <<>>
        /\ pc \notin {"tools"}
        /\ agent_response.steps = <<>>
        /\ suspended =>
              /\ agent_response.final_message = ai_message
              /\ ai_message # None
        /\ pc \in {"final_yield", "returned"} =>
              /\ nrounds = 1
              /\ agent_response.final_message = Some(Last(raw_messages))
              /\ Last(raw_messages).role = "assistant"
              /\ Last(raw_messages).tool_call_requests = <<>>
              /\ \E h \in InitialHistories, u \in UserInputs :
                    raw_messages = h \o <<UserMessage(u, <<>>), Last(raw_messages)>>
        /\ pc = "returned" =>
              \E u \in UserInputs :
                  agent_messages = <<AgentRequest(u), agent_response>>

\* ask has returned after one backend call whose stream ended with a
\* completed text message
C16_Witness ==
    /\ pc = "returned"
    /\ ~calls_seen
    /\ nrounds = 1
    /\ Last(raw_messages).content = HiText
    /\ Len(agent_messages) = 2

IsAssistant(msg) == msg.role = "assistant"

\* C17: the loop of ask has no round limit, and it ends with the first round
\* whose message carries no tool-call request: the tools of a round always
\* come to an end, after which the backend is called again (the model stops
\* at MaxRounds calls); when the k-th round's message has no request, ask
\* yields the final turn once more and then returns, having recorded the turn
\* in agent_messages, after exactly k backend calls, each earlier one of which
\* delivered a message with tool-call requests.
C17_AskTerminates ==
    /\ (pc = "tools") ~> (pc = "call")
    /\ (pc = "call" /\ nrounds < MaxRounds) ~> (pc = "streaming")
    /\ (pc = "final_yield") ~> (pc = "returned")
    /\ [][pc' = "returned" =>
             /\ pc = "final_yield" /\ suspended
             /\ agent_response' = agent_response
             /\ agent_messages' = Append(agent_messages, agent_response)
             /\ raw_messages' = raw_messages]_vars
    /\ [](pc \in {"final_yield", "returned"} =>
             LET as == SelectSeq(raw_messages, IsAssistant) IN
             /\ Len(as) = nrounds
             /\ \A i \in 1..(Len(as) - 1) : as[i].tool_call_requests # <<>>
             /\ Last(as).tool_call_requests = <<>>
             /\ agent_response.final_message = Some(Last(as)))

\* ask has returned after two backend calls: the first round ran tools
C17_Witness ==
    /\ pc = "returned"
    /\ nrounds = 2
    /\ attempts # <<>>
    /\ Last(agent_messages) = agent_response
    /\ agent_response.final_message = Some(Last(raw_messages))

\* the tool-result messages execute_tool_calls returns for the current round
RoundResultMessages ==
    [k \in 1..Len(ExecutedSteps) |->
        UserMessage(<<>>, agent_response.steps[ExecutedSteps[k]].tool_results)]

\* C18: the rounds of a conversation do not overlap: the backend is called
\* for round k+1 only when execute_tool_calls of round k has returned, with
\* no tool execution under way and no output outstanding, and the history it
\* is given is the history round k was given, extended by round k's assistant
\* message followed by round k's tool-result messages and nothing else.
C18_RoundsDoNotOverlap ==
    [][nrounds' # nrounds =>
          /\ nrounds' = nrounds + 1
          /\ pc = "call" /\ pc' = "streaming"
          /\ cursor = NoCursor /\ outs = <<>>
          /\ round_history' = raw_messages
          /\ nrounds >= 1 =>
                /\ ai_message # None
                /\ ai_message[1].role = "assistant"
                /\ raw_messages = round_history \o <<ai_message[1]>> \o RoundResultMessages
                /\ \A k \in 1..Len(attempts) :
                      (attempts[k].round = nrounds /\ attempts[k].outputs # <<>>) =>
                          Stores(agent_response.steps[attempts[k].s]
                                     .tool_results[attempts[k].r],
                                 Last(attempts[k].outputs))]_vars

\* the second round is under way and was given a history that ends with the
\* first round's assistant message and its tool-result message
C18_Witness ==
    /\ nrounds = 2
    /\ pc = "streaming"
    /\ Len(round_history) >= 4
    /\ round_history[Len(round_history) - 1].role = "assistant"
    /\ round_history[Len(round_history) - 1].tool_call_requests # <<>>
    /\ Last(round_history).role = "user"
    /\ Last(round_history).tool_results # <<>>

\* the event kinds add_event has a branch for (utils.py 298-345)
HandledKinds ==
    {"response.created", "response.in_progress", "response.output_item.added",
     "response.content_part.added", "response.reasoning_summary_part.added",
     "response.reasoning_summary_text.delta", "response.reasoning_summary_text.done",
     "response.reasoning_summary_part.done", "response.output_text.delta",
     "response.output_text.done", "response.content_part.done",
     "response.output_item.done", "response.function_call_arguments.delta",
     "response.function_call_arguments.done", "response.completed"}

\* C19: add_event on an event of a kind it has no branch for raises in every
\* builder state, empty or not: no snapshot is returned for it, the tree is
\* left as it was, and inside ask the exception ends the call without a turn
\* being yielded for the event.
C19_UnknownEventRaises ==
    /\ [](pc = "streaming" =>
             \A e \in StreamEvents :
                 e.type \notin HandledKinds =>
                     /\ add_event(builder, e).raised
                     /\ add_event(builder, e).builder._response = builder._response)
    /\ [][(pc = "streaming" /\ nevents' = nevents + 1
             /\ Last(builder'.events).type \notin HandledKinds) =>
               /\ pc' = "raised"
               /\ error' = Some("add_event")
               /\ ~suspended'
               /\ builder'._response = builder._response
               /\ agent_response' = agent_response
               /\ ai_message' = ai_message
               /\ raw_messages' = raw_messages]_vars

\* an event of an unhandled kind arrived when the tree already had an item,
\* and ask ended with the exception
C19_Witness ==
    /\ pc = "raised"
    /\ error = Some("add_event")
    /\ builder.events # <<>>
    /\ Last(builder.events).type \notin HandledKinds
    /\ builder._response # None
    /\ builder._response[1].output # <<>>

\* C20: the builder's event log holds every received event exactly once, in
\* receipt order: each add_event call extends the log by the one event it was
\* given, so that after e1..en the log is <<e1, ..., en>>.
C20_LogRecordsOnce ==
    [][(pc = "streaming" /\ nevents' = nevents + 1) =>
          \E e \in StreamEvents : builder'.events = Append(builder.events, e)]_vars

(***************************************************************************)
(* The builder and the translator on their own: a builder that has         *)
(* received the opening events of a stream is fed further events, each     *)
(* followed by the translation of the tree, as in the loop of              *)
(* get_llm_stream_response (core.py 164-166).                              *)
(***************************************************************************)
MaxBuilderEvents == 3   \* events a builder receives after the opening events

HelText == <<"H", "e", "l">>
LoText == <<"l", "o">>
HelloText == HelText \o LoText

BuilderEvents ==
    {ResponseEvent("response.created", OAIResponse(1, <<>>)),
     ResponseEvent("response.in_progress", OAIResponse(1, <<>>)),
     ResponseEvent("response.completed",
                   OAIResponse(1, <<MessageItem(<<Part("output_text", HelloText)>>)>>)),
     ItemEvent("response.output_item.added", 0, MessageItem(<<>>)),
     ItemEvent("response.output_item.added", 1, FunctionCallItem("c1", "search_car", <<>>)),
     ItemEvent("response.output_item.added", 0, ReasoningItem(<<>>)),
     PartEvent("response.content_part.added", 0, 0, Part("output_text", <<>>)),
     TextEvent("response.output_text.delta", 0, 0, HelText),
     TextEvent("response.output_text.delta", 0, 0, LoText),
     TextEvent("response.output_text.done", 0, 0, HelloText),
     TextEvent("response.function_call_arguments.delta", 1, 0, ArgsChunk),
     TextEvent("response.function_call_arguments.delta", 1, 0, <<QUOTE>>),
     TextEvent("response.function_call_arguments.done", 1, 0, ArgsText),
     PartEvent("response.reasoning_summary_part.added", 0, 0, Part("summary_text", <<>>)),
     TextEvent("response.reasoning_summary_text.delta", 0, 0, HelText),
     TextEvent("response.reasoning_summary_text.done", 0, 0, HelloText)}

\* the opening events of a stream: none, the created event, or the created
\* event followed by the events that open a text part, a function call after
\* it, or a reasoning summary
Openings ==
    LET created == ResponseEvent("response.created", OAIResponse(1, <<>>))
        text == <<ItemEvent("response.output_item.added", 0, MessageItem(<<>>)),
                  PartEvent("response.content_part.added", 0, 0,
                            Part("output_text", <<>>))>>
        call == <<ItemEvent("response.output_item.added", 1,
                            FunctionCallItem("c1", "search_car", <<>>))>>
        summary == <<ItemEvent("response.output_item.added", 0, ReasoningItem(<<>>)),
                     PartEvent("response.reasoning_summary_part.added", 0, 0,
                               Part("summary_text", <<>>))>>
    IN {<<>>, <<created>>, <<created>> \o text, <<created>> \o text \o call,
        <<created>> \o summary}

\* the builder after add_event has been called on each event of the sequence
RECURSIVE Replay(_, _)
Replay(b, events) ==
    IF events = <<>> THEN b
    ELSE Replay(add_event(b, Head(events)).builder, Tail(events))

\* the translation of the builder's tree, None while there is no tree
Translation(b) ==
    IF b._response = None THEN None
    ELSE Some(_get_ai_message_from_oai_response(b._response[1]))

BuilderInit ==
    /\ raw_messages \in InitialHistories
    /\ agent_messages = <<>>
    /\ agent_response = AgentResponse
    /\ \E o \in Openings :
          /\ builder = Replay(OAIStreamMessageBuilder, o)
          /\ ai_message = IF o = <<>> THEN None
                          ELSE Some(Translation(builder)[1].message)
    /\ pc = "building"
    /\ suspended = FALSE
    /\ nrounds = 0
    /\ nevents = 0
    /\ cursor = NoCursor
    /\ outs = <<>>
    /\ round_history = raw_messages
    /\ attempts = <<>>
    /\ error = None
    /\ calls_seen = FALSE
    /\ argument = None
    /\ result = None

\* core.py 165-166: one more event is added and the tree is translated
AddEvent(event) ==
    /\ pc = "building"
    /\ nevents < MaxBuilderEvents
    /\ nevents' = nevents + 1
    /\ LET added == add_event(builder, event) IN
       /\ builder' = added.builder
       /\ IF added.raised
          THEN /\ error' = Some("add_event")
               /\ pc' = "raised"
               /\ UNCHANGED ai_message
          ELSE LET translated == Translation(added.builder)[1]
               IN IF translated.raised
                  THEN /\ error' = Some("translate")
                       /\ pc' = "raised"
                       /\ UNCHANGED ai_message
                  ELSE /\ ai_message' = Some(translated.message)
                       /\ UNCHANGED <<pc, error>>
    /\ result' = None
    /\ UNCHANGED <<raw_messages, agent_messages, agent_response, suspended, nrounds,
                   cursor, outs, round_history, attempts, calls_seen, argument>>

\* variant: the second message is built on the request list of the first
Retranslate_shared_requests ==
    /\ pc = "building"
    /\ builder._response # None
    /\ result = None
    /\ result' = Some([Translation(builder)[1] EXCEPT
                          !.message.tool_call_requests =
                              ai_message[1].tool_call_requests \o @])
    /\ UNCHANGED <<raw_messages, agent_messages, agent_response, ai_message, builder,
                   pc, suspended, nrounds, nevents, cursor, outs, round_history,
                   attempts, error, calls_seen, argument>>

\* the translator is applied once more to the tree the builder holds
Retranslate ==
    /\ pc = "building"
    /\ builder._response # None
    /\ result = None
    /\ result' = Translation(builder)
    /\ UNCHANGED <<raw_messages, agent_messages, agent_response, ai_message, builder,
                   pc, suspended, nrounds, nevents, cursor, outs, round_history,
                   attempts, error, calls_seen, argument>>

BuilderNext ==
    \/ \E e \in BuilderEvents : AddEvent(e)
    \/ Retranslate

BuilderSpec == BuilderInit /\ [][BuilderNext]_vars

DeltaKinds == {"response.output_text.delta", "response.reasoning_summary_text.delta",
               "response.function_call_arguments.delta"}
DoneKinds == {"response.output_text.done", "response.reasoning_summary_text.done",
              "response.function_call_arguments.done"}

\* the text a delta or done event addresses in the tree, and the tree with
\* that text set to txt
TextAt(tree, e) ==
    LET item == tree.output[e.output_index + 1] IN
    IF e.type \in {"response.output_text.delta", "response.output_text.done"}
    THEN item.content[e.part_index + 1].text
    ELSE IF e.type \in {"response.reasoning_summary_text.delta",
                        "response.reasoning_summary_text.done"}
    THEN item.summary[e.part_index + 1].text
    ELSE item.arguments

WithText(tree, e, txt) ==
    IF e.type \in {"response.output_text.delta", "response.output_text.done"}
    THEN [tree EXCEPT !.output[e.output_index + 1].content[e.part_index + 1].text = txt]
    ELSE IF e.type \in {"response.reasoning_summary_text.delta",
                        "response.reasoning_summary_text.done"}
    THEN [tree EXCEPT !.output[e.output_index + 1].summary[e.part_index + 1].text = txt]
    ELSE [tree EXCEPT !.output[e.output_index + 1].arguments = txt]

\* add_event has just returned for the event that is now last in the log
Added == pc = "building" /\ nevents' = nevents + 1 /\ pc' = "building"

\* C21: a delta event appends its text to the text it addresses (of a text
\* part, a reasoning-summary part or a function-call item), so that deltas
\* accumulate in receipt order; a done event puts its own text in place of
\* whatever had accumulated; in both cases the rest of the tree is as before.
C21_AccumulateThenReplace ==
    [][Added =>
          LET e == Last(builder'.events)
              old == builder._response[1]
              new == builder'._response[1]
          IN /\ e.type \in DeltaKinds =>
                   /\ TextAt(new, e) = TextAt(old, e) \o e.text
                   /\ WithText(new, e, TextAt(old, e)) = old
             /\ e.type \in DoneKinds =>
                   /\ TextAt(new, e) = e.text
                   /\ WithText(new, e, TextAt(old, e)) = old]_vars

\* a text part received the deltas "lo" and "Hel" and then the done event
\* with "Hello": the translated content is "Hello"
C21_Witness ==
    /\ pc = "building"
    /\ nevents = 3
    /\ Len(builder.events) = 12
    /\ builder.events[8] = TextEvent("response.output_text.delta", 0, 0, LoText)
    /\ builder.events[10] = TextEvent("response.output_text.delta", 0, 0, HelText)
    /\ builder.events[12] = TextEvent("response.output_text.done", 0, 0, HelloText)
    /\ builder._response[1].output[1].content[1].text = HelloText
    /\ ai_message[1].content = HelloText

ResyncKinds == {"response.created", "response.in_progress", "response.completed"}

\* C22: a created, in-progress or completed event puts its response in place
\* of the whole tree, whatever the builder had accumulated, and a second
\* add_event call with the same event leaves the tree as the first made it.
C22_ResyncReplacesTree ==
    /\ [](pc = "building" =>
             \A e \in BuilderEvents :
                 e.type \in ResyncKinds =>
                     LET once == add_event(builder, e)
                         twice == add_event(once.builder, e)
                     IN /\ ~once.raised /\ ~twice.raised
                        /\ once.builder._response = e.response
                        /\ twice.builder._response = once.builder._response)
    /\ [][(Added /\ Last(builder'.events).type \in ResyncKinds) =>
             /\ builder'._response = Last(builder'.events).response
             /\ ai_message'[1].id = Last(builder'.events).response[1].id
             /\ error' = None]_vars

\* after a text part had received a delta, an in-progress event arrived and
\* the tree is that event's empty response
C22_Witness ==
    /\ pc = "building"
    /\ nevents = 2
    /\ builder.events[Len(builder.events) - 2].type = "response.output_text.delta"
    /\ Last(builder.events).type = "response.in_progress"
    /\ builder._response = Last(builder.events).response
    /\ builder._response[1].output = <<>>

\* C23: an output-item-added event puts its item at position output_index of
\* the tree's output sequence, and a part-added event puts its part at the
\* index it gives, so that later events addressed to that index act on them.
C23_ItemPlacedAtIndex ==
    [][Added =>
          LET e == Last(builder'.events)
              output == builder'._response[1].output
              oi == e.output_index + 1
              pi == e.part_index + 1
          IN /\ e.type = "response.output_item.added" =>
                   /\ oi \in 1..Len(output)
                   /\ output[oi] = e.item[1]
             /\ e.type = "response.content_part.added" =>
                   /\ pi \in 1..Len(output[oi].content)
                   /\ output[oi].content[pi] = e.part[1]
             /\ e.type = "response.reasoning_summary_part.added" =>
                   /\ pi \in 1..Len(output[oi].summary)
                   /\ output[oi].summary[pi] = e.part[1]]_vars

IsFunctionCall(item) == item.type = "function_call"

\* C25: the text of a function-call item's arguments never makes the
\* translation fail: whatever it is (empty, cut short, not an object, not
\* decodable), the translator emits a request that keeps the raw text, with an
\* empty argument map when the text does not decode to an object.
C25_ArgumentsNeverFailTranslation ==
    builder._response # None =>
        LET t == Translation(builder)[1]
            calls == SelectSeq(builder._response[1].output, IsFunctionCall)
        IN /\ ~t.raised
           /\ Len(t.message.tool_call_requests) = Len(calls)
           /\ \A k \in 1..Len(calls) :
                 /\ t.message.tool_call_requests[k].raw_input = calls[k].arguments
                 /\ t.message.tool_call_requests[k].id = calls[k].call_id

(***************************************************************************)
(* Function-level studies.  The objects of the conversation are idle: only *)
(* the input of the function under study (argument) and what it returned   *)
(* (result) change.                                                        *)
(***************************************************************************)
IdleVars == <<raw_messages, agent_messages, agent_response, ai_message, builder,
              suspended, nrounds, nevents, cursor, outs, round_history,
              attempts, error, calls_seen>>

IdleObjects ==
    /\ raw_messages = <<>>
    /\ agent_messages = <<>>
    /\ agent_response = AgentResponse
    /\ ai_message = None
    /\ builder = OAIStreamMessageBuilder
    /\ suspended = FALSE
    /\ nrounds = 0
    /\ nevents = 0
    /\ cursor = NoCursor
    /\ outs = <<>>
    /\ round_history = <<>>
    /\ attempts = <<>>
    /\ error = None
    /\ calls_seen = FALSE

(***************************************************************************)
(* The translator on its two input variants (utils.py 175-238): the same   *)
(* text and the same function calls, once as a full response with choices, *)
(* once as a streamed tree.                                                *)
(***************************************************************************)
MaxCalls == 2

CallNames == {"search_car", "car_details"}
\* complete, cut inside a string, a string instead of an object, a lone quote, empty
CallArguments == {ArgsText, ArgsChunk, <<QUOTE, "X", QUOTE>>, <<QUOTE>>, <<>>}
CallIds == <<"c1", "c2", "c3">>

CallLists ==
    UNION {[1..n -> CallNames \X CallArguments] : n \in 0..MaxCalls}

Contents == {None, Some(<<>>), Some(HiText), Some(HelloText)}

ToolCallsOf(calls) ==
    [k \in 1..Len(calls) |-> ToolCall(CallIds[k], calls[k][1], calls[k][2])]
CallItemsOf(calls) ==
    [k \in 1..Len(calls) |-> FunctionCallItem(CallIds[k], calls[k][1], calls[k][2])]

\* the streamed trees that hold text and calls: the message before or after the
\* calls or between them, its text in one part or split over two, with or
\* without a reasoning item, and no message item at all when there is no text
TreesOf(text, calls) ==
    LET items == CallItemsOf(calls)
        whole == <<MessageItem(<<Part("output_text", text)>>)>>
        split == {<<MessageItem(<<Part("output_text", SubSeq(text, 1, k)),
                                  Part("output_text", SubSeq(text, k + 1, Len(text)))>>)>> :
                     k \in 0..Len(text)}
        thought == <<ReasoningItem(<<Part("summary_text", HiText)>>)>>
    IN {whole \o items, items \o whole}
       \cup {thought \o s \o items : s \in split}
       \cup (IF items = <<>> THEN {}
             ELSE {<<items[1]>> \o whole \o SubSeq(items, 2, Len(items))})
       \cup (IF text = <<>> THEN {items} ELSE {})

TranslatorInit ==
    /\ IdleObjects
    /\ pc = "translating"
    /\ result = <<>>
    /\ \E content \in Contents, calls \in CallLists :
          \E output \in TreesOf(IF content = None THEN <<>> ELSE content[1], calls) :
             argument = Some([choices |-> ChatCompletion(1, content, ToolCallsOf(calls)),
                              output |-> OAIResponse(1, output)])

Translated(variant) == \E k \in DOMAIN result : result[k].variant = variant

\* the translator applied to the variant of the input that has not been translated yet
Translate(variant) ==
    /\ pc = "translating"
    /\ ~Translated(variant)
    /\ LET t == _get_ai_message_from_oai_response(argument[1][variant])
       IN result' = Append(result, [variant |-> variant, raised |-> t.raised,
                                    message |-> t.message])
    /\ UNCHANGED <<IdleVars, pc, argument>>

TranslatorNext ==
    \/ Translate("choices")
    \/ Translate("output")

TranslatorSpec == TranslatorInit /\ [][TranslatorNext]_vars

\* C26: a full response and a streamed tree that hold the same text and the
\* same function calls translate alike: both raise or neither does, and when
\* they translate the two messages have equal content and equal tool-call
\* requests (identifier, name, raw arguments, decoded arguments) in the same order.
C26_VariantsConverge ==
    pc = "translating" =>
        \A i, j \in DOMAIN result :
            result[i].variant # result[j].variant =>
                /\ result[i].raised = result[j].raised
                /\ ~result[i].raised =>
                      /\ result[i].message.content = result[j].message.content
                      /\ result[i].message.tool_call_requests
                            = result[j].message.tool_call_requests

C26_Witness ==
    /\ pc = "translating"
    /\ Len(result) = 2
    /\ ~result[1].raised
    /\ result[1].message.content = HelloText
    /\ Len(result[2].message.tool_call_requests) = 2
    /\ result[2].message.tool_call_requests[1].input = {<<<<"m">>, JStr(<<"X">>)>>}
    /\ result[2].message.tool_call_requests[2].input = {}
    /\ Len(argument[1].output.output) = 4
    /\ Len(argument[1].output.output[2].content) = 2

(***************************************************************************)
(* parse_partial_json (utils.py 33-64) on its own: every text over a small *)
(* alphabet, up to a length, is parsed once.  result holds the text handed *)
(* to jiter.from_json (None when the blank guard returned first) and the   *)
(* outcome of the call.                                                    *)
(***************************************************************************)
MaxTextLen == 4

\* "a" is a hex digit; none of the letters starts a number or a literal
ParserAlphabet == {"{", "}", QUOTE, ":", ",", BSLASH, "m", "u", "a", NEWLINE}

Texts == UNION {[1..n -> ParserAlphabet] : n \in 0..MaxTextLen}

IsBlank(json_str) == \A i \in 1..Len(json_str) : json_str[i] \in Whitespace

ParserInit ==
    /\ IdleObjects
    /\ pc = "parsing"
    /\ argument \in {Some(t) : t \in Texts}
    /\ result = None

Parse ==
    /\ pc = "parsing"
    /\ result = None
    /\ result' = Some([json_str |-> IF IsBlank(argument[1]) THEN None
                                    ELSE Some(TailRepair(argument[1])),
                       parsed |-> parse_partial_json(argument[1])])
    /\ UNCHANGED <<IdleVars, pc, argument>>

ParserNext == Parse

ParserSpec == ParserInit /\ [][ParserNext]_vars

\* JSON (RFC 8259) restricted to ParserAlphabet: is s the beginning of a
\* document?  m is what is expected at position i, key says whether the string
\* being read is a key, hex counts the digits an escape still needs and depth
\* the objects that are open.
RECURSIVE Viable(_, _, _, _, _, _)
Viable(s, i, m, key, hex, depth) ==
    IF i > Len(s) THEN TRUE
    ELSE LET c == s[i]
             after == IF depth = 0 THEN "end" ELSE "comma_or_close"
             closed == IF depth = 1 THEN "end" ELSE "comma_or_close"
         IN
         IF m # "string" /\ m # "escape" /\ m # "hex" /\ c \in Whitespace
         THEN Viable(s, i + 1, m, key, hex, depth)
         ELSE CASE m = "value" ->
                     IF c = QUOTE THEN Viable(s, i + 1, "string", FALSE, 0, depth)
                     ELSE IF c = "{" THEN Viable(s, i + 1, "key_or_close", FALSE, 0, depth + 1)
                     ELSE FALSE
                [] m = "string" ->
                     IF c = QUOTE
                     THEN Viable(s, i + 1, IF key THEN "colon" ELSE after, FALSE, 0, depth)
                     ELSE IF c = BSLASH THEN Viable(s, i + 1, "escape", key, 0, depth)
                     ELSE IF c = NEWLINE THEN FALSE
                     ELSE Viable(s, i + 1, "string", key, 0, depth)
                [] m = "escape" ->
                     IF c \in {QUOTE, BSLASH} THEN Viable(s, i + 1, "string", key, 0, depth)
                     ELSE IF c = "u" THEN Viable(s, i + 1, "hex", key, 4, depth)
                     ELSE FALSE
                [] m = "hex" ->
                     IF c \notin HexDigits THEN FALSE
                     ELSE IF hex = 1 THEN Viable(s, i + 1, "string", key, 0, depth)
                     ELSE Viable(s, i + 1, "hex", key, hex - 1, depth)
                [] m = "key_or_close" ->
                     IF c = QUOTE THEN Viable(s, i + 1, "string", TRUE, 0, depth)
                     ELSE IF c = "}" THEN Viable(s, i + 1, closed, FALSE, 0, depth - 1)
                     ELSE FALSE
                [] m = "key" ->
                     IF c = QUOTE THEN Viable(s, i + 1, "string", TRUE, 0, depth)
                     ELSE FALSE
                [] m = "colon" ->
                     IF c = ":" THEN Viable(s, i + 1, "value", FALSE, 0, depth)
                     ELSE FALSE
                [] m = "comma_or_close" ->
                     IF c = "," THEN Viable(s, i + 1, "key", FALSE, 0, depth)
                     ELSE IF c = "}" THEN Viable(s, i + 1, closed, FALSE, 0, depth - 1)
                     ELSE FALSE
                [] OTHER -> FALSE

\* a document followed by white space is a document, so a whole document is
\* a proper prefix of one too
IsPrefixOfDocument(s) == Viable(s, 1, "value", FALSE, 0, 0)

\* C27: parser safety: on a text that is a proper prefix of a valid JSON
\* document parse_partial_json does not raise, and on a blank text it returns
\* the empty-string sentinel.
C27_ParserSafety ==
    (pc = "parsing" /\ result # None /\ IsPrefixOfDocument(argument[1])) =>
        /\ ~result[1].parsed.raised
        /\ IsBlank(argument[1]) => result[1].parsed.value = JStr(<<>>)

\* what the tail repair is said to give for a text that is not blank
ExpectedRepair(s) ==
    LET n == Len(s)
        escape == {k \in 0..3 : /\ n >= k + 2
                                /\ s[n - k - 1] = BSLASH
                                /\ s[n - k] = "u"
                                /\ \A j \in (n - k + 1)..n : s[j] \in HexDigits}
    IN IF \/ /\ s[n] = QUOTE
             /\ n > 1 => s[n - 1] \notin {BSLASH, ":"}
          \/ /\ s[n] = BSLASH
             /\ n > 1 => s[n - 1] # BSLASH
       THEN SubSeq(s, 1, n - 1)
       ELSE IF escape # {}
            THEN SubSeq(s, 1, n - 2 - (CHOOSE k \in escape : TRUE))
            ELSE s

\* C28: tail repair before parsing: a text that is not blank and ends in a
\* quote preceded neither by a backslash nor by a colon, or in a backslash not
\* preceded by a backslash, loses exactly its last character; otherwise a text
\* whose tail is a backslash, u and 0 to 3 hex digits is cut at that backslash;
\* otherwise the text reaches the underlying parser unchanged.
C28_TailRepair ==
    (pc = "parsing" /\ result # None /\ ~IsBlank(argument[1])) =>
        result[1].json_str = Some(ExpectedRepair(argument[1]))

(***************************************************************************)
(* Two conversations in one process.  Each StreamingChatWithTools instance *)
(* has the attributes __init__ gives it (agent.py 270-296) and the frame   *)
(* of its ask generator.  One instance runs at a time: the variables hold  *)
(* the running one, argument holds the other and result names the running  *)
(* one.  Control can pass to the other instance between any two steps.     *)
(***************************************************************************)
TwoRounds == 1
TwoEvents == 1

Instances == {"a", "b"}
OtherInstance(x) == IF x = "a" THEN "b" ELSE "a"
OwnHistories == [a |-> <<SystemMessage(<<"sys">>)>>, b |-> <<SystemMessage(<<"other">>)>>]

\* everything that belongs to the running instance and its ask call
Frame ==
    [raw_messages |-> raw_messages,
     agent_messages |-> agent_messages,
     agent_response |-> agent_response,
     ai_message |-> ai_message,
     builder |-> builder,
     pc |-> pc,
     suspended |-> suspended,
     nrounds |-> nrounds,
     nevents |-> nevents,
     cursor |-> cursor,
     outs |-> outs,
     round_history |-> round_history,
     attempts |-> attempts,
     error |-> error,
     calls_seen |-> calls_seen]

\* agent.py 270-296: a new instance constructed with its own history list
NewInstance(messages) ==
    [raw_messages |-> messages,
     agent_messages |-> <<>>,
     agent_response |-> AgentResponse,
     ai_message |-> None,
     builder |-> OAIStreamMessageBuilder,
     pc |-> "idle",
     suspended |-> FALSE,
     nrounds |-> 0,
     nevents |-> 0,
     cursor |-> NoCursor,
     outs |-> <<>>,
     round_history |-> messages,
     attempts |-> <<>>,
     error |-> None,
     calls_seen |-> FALSE]

TwoInit ==
    /\ LET n == NewInstance(OwnHistories["a"]) IN
          /\ raw_messages = n.raw_messages
          /\ agent_messages = n.agent_messages
          /\ agent_response = n.agent_response
          /\ ai_message = n.ai_message
          /\ builder = n.builder
          /\ pc = n.pc
          /\ suspended = n.suspended
          /\ nrounds = n.nrounds
          /\ nevents = n.nevents
          /\ cursor = n.cursor
          /\ outs = n.outs
          /\ round_history = n.round_history
          /\ attempts = n.attempts
          /\ error = n.error
          /\ calls_seen = n.calls_seen
    /\ argument = Some(NewInstance(OwnHistories["b"]))
    /\ result = Some("a")

\* a step of the ask call of the running instance
Step ==
    /\ StableNext
    /\ nrounds' <= TwoRounds
    /\ nevents' <= TwoEvents

Switch_shared_log ==
    /\ raw_messages' = argument[1].raw_messages
    /\ agent_messages' = agent_messages
    /\ agent_response' = argument[1].agent_response
    /\ ai_message' = argument[1].ai_message
    /\ builder' = argument[1].builder
    /\ pc' = argument[1].pc
    /\ suspended' = argument[1].suspended
    /\ nrounds' = argument[1].nrounds
    /\ nevents' = argument[1].nevents
    /\ cursor' = argument[1].cursor
    /\ outs' = argument[1].outs
    /\ round_history' = argument[1].round_history
    /\ attempts' = argument[1].attempts
    /\ error' = argument[1].error
    /\ calls_seen' = argument[1].calls_seen
    /\ argument' = Some(Frame)
    /\ result' = Some(OtherInstance(result[1]))
\* the other instance gets to run: nothing is left behind, since every piece
\* of state is an attribute of an instance or a local of its generator
Switch ==
    /\ raw_messages' = argument[1].raw_messages
    /\ agent_messages' = argument[1].agent_messages
    /\ agent_response' = argument[1].agent_response
    /\ ai_message' = argument[1].ai_message
    /\ builder' = argument[1].builder
    /\ pc' = argument[1].pc
    /\ suspended' = argument[1].suspended
    /\ nrounds' = argument[1].nrounds
    /\ nevents' = argument[1].nevents
    /\ cursor' = argument[1].cursor
    /\ outs' = argument[1].outs
    /\ round_history' = argument[1].round_history
    /\ attempts' = argument[1].attempts
    /\ error' = argument[1].error
    /\ calls_seen' = argument[1].calls_seen
    /\ argument' = Some(Frame)
    /\ result' = Some(OtherInstance(result[1]))

TwoNext ==
    \/ Step
    \/ Switch

TwoSpec == TwoInit /\ [][TwoNext]_vars

InstanceOf(x) == IF result = Some(x) THEN Frame ELSE argument[1]

MaxRequests == 2

RequestPool ==
    {ToolCallRequest(id, name, raw[1], raw[2]) :
        id \in {"c1", "c2"}, name \in CallNames,
        raw \in {<<ArgsText, {<<<<"m">>, JStr(<<"X">>)>>}>>, <<<<>>, {}>>}}

Requests == UNION {[1..n -> RequestPool] : n \in 0..MaxRequests}

AggregatorInit ==
    /\ IdleObjects
    /\ pc = "converting"
    /\ argument \in {Some(AIMessage(id, content, reqs)) :
                        id \in RespIds, content \in {<<>>, HiText}, reqs \in Requests}
    /\ result = None

Convert ==
    /\ pc = "converting"
    /\ result = None
    /\ result' = Some(ai_message_to_agent_response(argument[1]))
    /\ UNCHANGED <<IdleVars, pc, argument>>

AggregatorNext == Convert

AggregatorSpec == AggregatorInit /\ [][AggregatorNext]_vars

\* C30: ai_message_to_agent_response(msg): without tool-call requests the
\* result has msg as final message and no steps; otherwise it has no final
\* message and exactly one step, pending, that holds msg and one tool result
\* per request, in request order, each with the request's identifier, name and
\* decoded input, pending and without output.
C30_ConversionShape ==
    (pc = "converting" /\ result # None) =>
        LET msg == argument[1]
            resp == result[1]
            n == Len(msg.tool_call_requests)
        IN IF n = 0
           THEN resp.final_message = Some(msg) /\ resp.steps = <<>>
           ELSE /\ resp.final_message = None
                /\ Len(resp.steps) = 1
                /\ resp.steps[1].status = "pending"
                /\ resp.steps[1].ai_message = msg
                /\ Len(resp.steps[1].tool_results) = n
                /\ \A k \in 1..n :
                      LET tr == resp.steps[1].tool_results[k]
                          rq == msg.tool_call_requests[k]
                      IN /\ tr.id = rq.id
                         /\ tr.name = rq.name
                         /\ tr.input = rq.input
                         /\ tr.status = "pending"
                         /\ tr.output = None

C30_Witness ==
    /\ pc = "converting"
    /\ result # None
    /\ Len(argument[1].tool_call_requests) = 2
    /\ argument[1].tool_call_requests[1].id = "c2"
    /\ argument[1].tool_call_requests[2].id = "c1"
    /\ Len(result[1].steps) = 1
    /\ result[1].steps[1].tool_results[1].id = "c2"
    /\ result[1].steps[1].tool_results[2].input = {<<<<"m">>, JStr(<<"X">>)>>}

(***************************************************************************)
(* _execute_tool (agent.py 160-201) on its own: one callable of a kind,    *)
(* one thing it does when invoked, executed once.                          *)
(***************************************************************************)
MaxToolYields == 2

ToolValues ==
    {OutputValue(<<"found">>, "success", "None"),
     OutputValue(<<"working">>, "success", "progress"),
     OutputValue(<<"not found">>, "failure", "None"),
     OutputValue(<<"not found">>, "failure", "detail"),
     StrValue(<<"plain">>), StrValue(<<>>), IntValue(7), IntValue(42)}

ToolRuns ==
    {[tool_func |-> Some("generator"), behaviour |-> Behaviour(ys, r)] :
        ys \in SeqsUpTo(ToolValues, MaxToolYields),
        r \in {None} \cup {Some(e) : e \in Exceptions}}
    \cup {[tool_func |-> Some("function"), behaviour |-> Behaviour(<<v>>, None)] :
             v \in ToolValues}
    \cup {[tool_func |-> Some("function"), behaviour |-> Behaviour(<<>>, Some(e))] :
             e \in Exceptions}
    \cup {[tool_func |-> None, behaviour |-> Behaviour(<<>>, None)]}

ExecuteInit ==
    /\ IdleObjects
    /\ pc = "executing"
    /\ argument \in {Some(run) : run \in ToolRuns}
    /\ result = None

Execute ==
    /\ pc = "executing"
    /\ result = None
    /\ result' = Some(_execute_tool(argument[1].tool_func, "search_car",
                                    argument[1].behaviour))
    /\ UNCHANGED <<IdleVars, pc, argument>>

ExecuteNext == Execute

ExecuteSpec == ExecuteInit /\ [][ExecuteNext]_vars

\* the Output a returned or yielded value is to become
Forwarded(v, output) ==
    IF v.kind = "ToolOutput"
    THEN /\ output.text = v.text
         /\ output.status = v.status
         /\ output.metadata = v.metadata
    ELSE /\ output.status = "success"
         /\ output.text = (CASE v.kind = "str" -> v.text
                             [] v = IntValue(7) -> <<"7">>
                             [] v = IntValue(42) -> <<"4", "2">>)

\* C31: output coercion: an Output returned by a plain tool or yielded by a
\* generator tool is forwarded with its status, text and metadata, every other
\* value becomes a success Output whose text is the value's string
\* conversion, and a plain function contributes exactly one Output.
C31_OutputCoercion ==
    (pc = "executing" /\ result # None /\ argument[1].tool_func # None) =>
        LET b == argument[1].behaviour
            outputs == result[1].outputs
        IN /\ Len(outputs) >= Len(b.yields)
           /\ \A i \in 1..Len(b.yields) : Forwarded(b.yields[i], outputs[i])
           /\ argument[1].tool_func = Some("function") => Len(outputs) = 1
           /\ b.raises = None => Len(outputs) = Len(b.yields)

\* a generator yielded a progress Output and then the number 42
C31_Witness ==
    /\ pc = "executing"
    /\ result # None
    /\ argument[1].tool_func = Some("generator")
    /\ argument[1].behaviour.yields =
          <<OutputValue(<<"working">>, "success", "progress"), IntValue(42)>>
    /\ result[1].outputs = <<ToolOutput(<<"working">>, "success", "progress"),
                             ToolOutput(<<"4", "2">>, "success", "None")>>

\* C32: final-looking, then calls: an update with a message that carries
\* tool-call requests leaves the turn without final message, whatever was set
\* before, and with exactly one step for the message's identifier, whose tool
\* results are all pending and without output.
C32_CallsClearFinal ==
    [][(/\ pc = "streaming"
        /\ pc' = "streaming"
        /\ nevents' = nevents + 1
        /\ ai_message'[1].tool_call_requests # <<>>) =>
          /\ agent_response'.final_message = None
          /\ \E i \in 1..Len(agent_response'.steps) :
                /\ agent_response'.steps[i].ai_message.id = ai_message'[1].id
                /\ \A j \in 1..Len(agent_response'.steps) :
                      agent_response'.steps[j].ai_message.id = ai_message'[1].id => j = i
                /\ Len(agent_response'.steps[i].tool_results)
                      = Len(ai_message'[1].tool_call_requests)
                /\ \A r \in 1..Len(agent_response'.steps[i].tool_results) :
                      /\ agent_response'.steps[i].tool_results[r].status = "pending"
                      /\ agent_response'.steps[i].tool_results[r].output = None]_vars

\* the stream first added a message item (a snapshot without requests, taken
\* as final) and then a function call to the same response
C32_Witness ==
    /\ AfterUpdate
    /\ Len(builder._response[1].output) = 2
    /\ builder._response[1].output[1].type = "message"
    /\ builder._response[1].output[2].type = "function_call"
    /\ ai_message[1].tool_call_requests # <<>>
    /\ agent_response.final_message = None
    /\ Len(agent_response.steps) = 1

(***************************************************************************)
(* The translator on streamed trees of every shape (utils.py 203-238):     *)
(* up to MaxItems output items, of known and unknown kinds.                *)
(***************************************************************************)
MaxItems == 3

ItemPool ==
    {MessageItem(<<Part("output_text", HelText), Part("output_text", LoText)>>),
     MessageItem(<<Part("output_text", HiText)>>),
     MessageItem(<<Part("output_text", HiText), Part("refusal", LoText)>>),
     FunctionCallItem("c1", "search_car", ArgsText),
     FunctionCallItem("c2", "car_details", ArgsChunk),
     ReasoningItem(<<Part("summary_text", HelText)>>),
     ReasoningItem(<<Part("summary_text", LoText), Part("summary_text", HiText)>>),
     Item("web_search_call", "ws", "", "", <<>>, <<>>, <<>>)}

Trees == UNION {[1..n -> ItemPool] : n \in 0..MaxItems}

TreeInit ==
    /\ IdleObjects
    /\ pc = "translating"
    /\ argument \in {Some(OAIResponse(1, output)) : output \in Trees}
    /\ result = None

TranslateTree ==
    /\ pc = "translating"
    /\ result = None
    /\ result' = Some(_get_ai_message_from_oai_response(argument[1]))
    /\ UNCHANGED <<IdleVars, pc, argument>>

TreeNext == TranslateTree

TreeSpec == TreeInit /\ [][TreeNext]_vars

KnownItem(item) ==
    \/ item.type \in {"function_call", "reasoning"}
    \/ /\ item.type = "message"
       /\ \A k \in 1..Len(item.content) : item.content[k].type = "output_text"

RECURSIVE TextsOf(_)
\* the texts of a sequence of parts, one after the other
TextsOf(parts) ==
    IF parts = <<>> THEN <<>> ELSE Head(parts).text \o TextsOf(Tail(parts))

RECURSIVE ContentOf(_)
ContentOf(output) ==
    IF output = <<>> THEN <<>>
    ELSE (IF Head(output).type = "message" THEN TextsOf(Head(output).content) ELSE <<>>)
         \o ContentOf(Tail(output))

\* C33: translation of a streamed tree is a total match with explicit failure:
\* a tree with an item or a message part of unknown kind makes it fail; otherwise
\* the content is the concatenation of the output-text parts in tree order, each
\* function-call item gives one request in tree order, and the summary and
\* content texts of every reasoning item are in the message's reasoning.
C33_TotalMatch ==
    (pc = "translating" /\ result # None) =>
        LET output == argument[1].output
            msg == result[1].message
            calls == SelectSeq(output, IsFunctionCall)
        IN IF \E i \in 1..Len(output) : ~KnownItem(output[i])
           THEN result[1].raised
           ELSE /\ ~result[1].raised
                /\ msg.content = ContentOf(output)
                /\ Len(msg.tool_call_requests) = Len(calls)
                /\ \A k \in 1..Len(calls) :
                      /\ msg.tool_call_requests[k].id = calls[k].call_id
                      /\ msg.tool_call_requests[k].name = calls[k].name
                      /\ msg.tool_call_requests[k].raw_input = calls[k].arguments
                /\ \A i \in 1..Len(output) :
                      output[i].type = "reasoning" =>
                         /\ msg.reasoning # None
                         /\ \A k \in 1..Len(output[i].summary) :
                               \E j \in 1..Len(msg.reasoning[1].summaries) :
                                  msg.reasoning[1].summaries[j] = output[i].summary[k].text
                         /\ \A k \in 1..Len(output[i].content) :
                               \E j \in 1..Len(msg.reasoning[1].contents) :
                                  msg.reasoning[1].contents[j] = output[i].content[k].text

(***************************************************************************)
(* Several ask calls on one instance (agent.py 298-346): once a call has   *)
(* returned, was closed by the consumer or ended with an exception, the    *)
(* instance is asked again.  The new call is a new generator: its locals   *)
(* start afresh, the attributes of the instance are what the call before   *)
(* left.                                                                   *)
(***************************************************************************)
ask_again(user_input) ==
    /\ pc \in {"returned", "closed", "raised"}
    /\ nrounds < MaxRounds
    /\ agent_messages' = Append(agent_messages, AgentRequest(user_input))
    /\ raw_messages' = Append(raw_messages, UserMessage(user_input, <<>>))
    /\ agent_response' = AgentResponse
    /\ ai_message' = None
    /\ builder' = OAIStreamMessageBuilder
    /\ cursor' = NoCursor
    /\ outs' = <<>>
    /\ suspended' = FALSE
    /\ error' = None
    /\ calls_seen' = FALSE
    /\ pc' = "call"
    /\ UNCHANGED <<nrounds, nevents, round_history, attempts, argument, result>>

ReaskNext ==
    \/ StableNext
    \/ \E u \in UserInputs : ask_again(u)

ReaskSpec == Init /\ [][ReaskNext]_vars

\* every request of every assistant message of history is answered by a tool
\* result that is not pending, in a User message further on
Answered(history) ==
    \A i \in 1..Len(history) :
        history[i].role = "assistant" =>
            \A k \in 1..Len(history[i].tool_call_requests) :
                \E j \in (i + 1)..Len(history) :
                    /\ history[j].role = "user"
                    /\ \E r \in 1..Len(history[j].tool_results) :
                          /\ history[j].tool_results[r].id
                                = history[i].tool_call_requests[k].id
                          /\ history[j].tool_results[r].status # "pending"

\* C34: request well-formedness at every backend call: in the history passed
\* to the backend, in any round of any ask call on the instance, every
\* tool-call request of an assistant message has a tool result with its
\* identifier and a status other than pending in a later User message.
C34_RequestsAnswered == Answered(round_history)

\* C35: in every state of a turn a step whose status is DONE has no tool
\* result that is still pending or without output.
C35_DoneStepsAreResolved ==
    \A i \in 1..Len(agent_response.steps) :
        agent_response.steps[i].status = "done" =>
            \A r \in 1..Len(agent_response.steps[i].tool_results) :
                /\ agent_response.steps[i].tool_results[r].status # "pending"
                /\ agent_response.steps[i].tool_results[r].output # None

\* C36: within one ask call the steps of the turn have pairwise distinct
\* assistant-message identifiers, and the list of steps only grows at its end:
\* no step is removed or moved, and a step that is DONE stays DONE.
C36_StepsOnlyGrow ==
    /\ [](\A i, j \in 1..Len(agent_response.steps) :
             i # j => agent_response.steps[i].ai_message.id
                         # agent_response.steps[j].ai_message.id)
    /\ [][/\ Len(agent_response'.steps) >= Len(agent_response.steps)
          /\ \A i \in 1..Len(agent_response.steps) :
                /\ agent_response'.steps[i].ai_message.id
                      = agent_response.steps[i].ai_message.id
                /\ agent_response.steps[i].status = "done"
                      => agent_response'.steps[i].status = "done"]_vars

\* the step of round 1 is DONE and round 2 has added a step after it
C36_Witness ==
    /\ nrounds = 2
    /\ Len(agent_response.steps) = 2
    /\ agent_response.steps[1].status = "done"
    /\ agent_response.steps[2].status = "pending"
    /\ agent_response.steps[1].ai_message.id # agent_response.steps[2].ai_message.id

\* C37: final-message stability of the yielded snapshots: within one ask
\* call, a yielded turn that has its final message set is not followed by a
\* yielded turn without it.
C37_FinalMessageStable ==
    [][(/\ suspended
        /\ agent_response.final_message # None
        /\ suspended') =>
          agent_response'.final_message # None]_vars

\* C38: events out of protocol order are rejected: add_event with an event other
\* than response created, in-progress or completed on a builder whose tree is
\* not initialised raises and leaves it uninitialised, and any add_event that
\* raises leaves the response tree as it was before the call.
C38_OutOfOrderRejected ==
    /\ [](pc = "building" =>
             \A e \in BuilderEvents :
                 LET added == add_event(builder, e) IN
                 /\ (builder._response = None /\ e.type \notin ResyncKinds) =>
                       /\ added.raised
                       /\ added.builder._response = None
                 /\ added.raised => added.builder._response = builder._response)
    /\ [][(pc = "building" /\ pc' = "raised" /\ error' = Some("add_event")) =>
             builder'._response = builder._response]_vars

\* a text delta for a part that the tree, holding one message item without
\* parts, does not have
C38_Witness ==
    /\ pc = "raised"
    /\ error = Some("add_event")
    /\ builder._response # None
    /\ Len(builder._response[1].output) = 1
    /\ builder._response[1].output[1].type = "message"
    /\ builder._response[1].output[1].content = <<>>
    /\ Last(builder.events).type = "response.output_text.delta"

(***************************************************************************)
(* A request on its way from an endpoint to the backend: /chat and         *)
(* /chat/stream (backend_api.py) build the message list and hand it to     *)
(* run_mahindra_bot (core/agent.py 204-262), which constructs the instance *)
(* and calls ask.                                                          *)
(***************************************************************************)
MaxHistory == 2

RequestMessages == {<<"hello">>, <<"bye">>}
HistoryContents == {<<"hi">>, <<"answer">>, <<"hello">>}
ChatRequests ==
    {[message |-> msg, conversation_history |-> h] :
        msg \in RequestMessages, h \in SeqsUpTo(HistoryContents, MaxHistory)}

\* backend_api.py 160-163 and 241-243: the conversation so far as messages
HistoryMessages(request) ==
    [k \in 1..Len(request.conversation_history) |->
        UserMessage(request.conversation_history[k], <<>>)]

IsNotSystem(msg) == msg.role # "system"

\* core/agent.py 204-256: the messages the instance is constructed with
run_mahindra_bot(user_input, messages) ==
    LET appended == Append(messages, UserMessage(user_input, <<>>))
        messages_without_system == SelectSeq(appended, IsNotSystem)
        messages_with_system == <<SystemMessage(<<"sys">>)>> \o messages_without_system
    IN DropLast(messages_with_system, 1)

\* backend_api.py 165-167, 187: the request's message is appended for the intent
\* classification and left out again in the call
chat(request) ==
    LET messages == Append(HistoryMessages(request), UserMessage(request.message, <<>>))
    IN run_mahindra_bot(request.message, DropLast(messages, 1))

\* backend_api.py 253-256, 268
chat_stream(request) ==
    LET messages == Append(HistoryMessages(request), UserMessage(request.message, <<>>))
    IN run_mahindra_bot(request.message, messages)

EndpointInit ==
    /\ IdleObjects
    /\ pc = "request"
    /\ argument \in {Some([endpoint |-> e, request |-> r]) :
                        e \in {"chat", "chat_stream"}, r \in ChatRequests}
    /\ result = None

\* the endpoint handles the request up to the construction of the instance
Receive ==
    /\ pc = "request"
    /\ LET messages == IF argument[1].endpoint = "chat"
                       THEN chat(argument[1].request)
                       ELSE chat_stream(argument[1].request)
       IN /\ raw_messages' = messages
          /\ round_history' = messages
    /\ pc' = "idle"
    /\ UNCHANGED <<agent_messages, agent_response, ai_message, builder, suspended,
                   nrounds, nevents, cursor, outs, attempts, error, calls_seen,
                   argument, result>>

EndpointNext ==
    \/ Receive
    \/ ask(argument[1].request.message)
    \/ CallBackend

EndpointSpec == EndpointInit /\ [][EndpointNext]_vars

\* C39: the current user input reaches the backend exactly once: the history
\* passed to the first backend call is one System message, the messages of the
\* conversation so far in order, and one User message with the current input.
C39_InputReachesBackendOnce ==
    (pc = "streaming" /\ nrounds = 1) =>
        round_history = <<SystemMessage(<<"sys">>)>>
                           \o HistoryMessages(argument[1].request)
                           \o <<UserMessage(argument[1].request.message, <<>>)>>

====
